---------------------------- MODULE Spec2Model ----------------------------
(* Enclave Memory Manager (sgx_trts/src/emm): the VM manager's two range   *)
(* lists of EMAs and the operations of vmmgr.rs on them.                   *)
(*                                                                         *)
(* Addresses are natural numbers.  The page size is 2^SE_PAGE_SHIFT        *)
(* address units with a scaled-down shift, so that page-aligned and        *)
(* misaligned addresses both exist while the address space stays small.    *)
EXTENDS Integers, Sequences, FiniteSets, TLC

(***************************************************************************)
(* Bounds of the model                                                     *)
(***************************************************************************)
\* log2 of the page size in address units (12 on the real architecture)
SE_PAGE_SHIFT == 1
\* first page of ELRANGE (page 0 lies outside the enclave)
ElrangeBasePage == 1
\* number of pages of ELRANGE
ElrangePages == 5
\* first page of the user region
UserBasePage == 2
\* number of pages of the user region
UserPages == 3
\* longest request, in pages
MaxLenPages == 3
\* pages of ELRANGE and of the user region of the image the chunks are added in
ChunkElrangePages == 6
ChunkUserPages == 4
\* most EMAs a range list may hold when a new one is requested
MaxEmas == 2

\* number of exact-size free lists of the reserve heap (256 in the source)
NUM_EXACT_LIST == 2
\* INIT_MEM_SIZE in units of EXACT_MATCH_INCREMENT (8192 in the source)
InitMemBlocks == 8
\* MAX_EMALLOC_SIZE in units of INIT_MEM_SIZE (4096 in the source)
MaxEmallocChunks == 3
\* GUARD_SIZE in units of EXACT_MATCH_INCREMENT (4096 in the source)
GuardBlocks == 1
\* most chunks the user region has room for
MaxChunks == 2
\* most live payloads when a new one is requested
MaxLive == 3
\* largest request of emalloc, in bytes
MaxRequest == 25
\* a request whose rsize exceeds the incr_size of the second add_chunks
LargeRequest == 104
\* a workload: the calls of its script, the runs of it, and its largest
\* request in units of EXACT_MATCH_INCREMENT
MaxScript == 6
MaxRuns == 3
MaxWorkBlocks == 4
\* threads of enclave execution
NumThreads == 3
\* most calls of init_emm a thread makes
MaxInitCalls == 2
\* threads that use the allocators
NumLockThreads == 2
\* live payloads above which the threads stop calling RsrvAlloc::allocate
MaxLockLive == 2
\* largest increment of add_chunks in pages
MaxIncrementPages == 2
\* INIT_MEM_SIZE and GUARD_SIZE in pages (16 and 8 in the source)
InitMemPages == 1
GuardPages == 1

SE_PAGE_SIZE == 2 ^ SE_PAGE_SHIFT

\* MmLayout: the enclave layout (image, user region), read from the image
\* when the enclave starts; layout holds the sizes of ELRANGE and of the
\* user region in pages
VARIABLE layout

MmLayout == [elrange_pages |-> ElrangePages, user_pages |-> UserPages]

elrange_base == ElrangeBasePage * SE_PAGE_SIZE
elrange_end == (ElrangeBasePage + layout.elrange_pages) * SE_PAGE_SIZE
user_region_mem_base == UserBasePage * SE_PAGE_SIZE
user_region_mem_size == layout.user_pages * SE_PAGE_SIZE

(***************************************************************************)
(* Macros and range predicates                                             *)
(***************************************************************************)
trim_to(x, align) == x - (x % align)
round_to(x, align) == ((x + align - 1) \div align) * align
is_page_aligned(x) == x % SE_PAGE_SIZE = 0

is_within_enclave(addr, len) ==
    /\ addr >= elrange_base
    /\ addr + len <= elrange_end

is_within_user_range(start, len) ==
    /\ start >= user_region_mem_base
    /\ start + len <= user_region_mem_base + user_region_mem_size

\* the RTS range is what ELRANGE holds outside the user region
is_within_rts_range(start, len) ==
    /\ is_within_enclave(start, len)
    /\ \/ start + len <= user_region_mem_base
       \/ start >= user_region_mem_base + user_region_mem_size

(***************************************************************************)
(* EMA node (ema.rs)                                                       *)
(***************************************************************************)
NoAddr == -1

ProtRW == {"R", "W"}

Ema(start, length, flags, alloc, typ, prot, map) ==
    [start |-> start, length |-> length, alloc_flags |-> flags, alloc |-> alloc,
     typ |-> typ, prot |-> prot, eaccept_map |-> map]

ema_end(e) == e.start + e.length
ema_pages(e) == e.length \div SE_PAGE_SIZE

lower_than_addr(e, a) == ema_end(e) <= a
higher_than_addr(e, a) == e.start >= a
overlap_addr(e, a) == e.start <= a /\ a < ema_end(e)
aligned_end(e, align) == round_to(ema_end(e), align)

ZeroMap(n) == [i \in 1..n |-> FALSE]
FullMap(n) == [i \in 1..n |-> TRUE]

\* Ema::split(at): self keeps [start, at), the returned node is [at, end);
\* each keeps its slice of the bitmap
ema_split_left(e, at) ==
    [e EXCEPT !.length = at - e.start,
              !.eaccept_map = SubSeq(e.eaccept_map, 1, (at - e.start) \div SE_PAGE_SIZE)]

ema_split_right(e, at) ==
    [e EXCEPT !.start = at,
              !.length = ema_end(e) - at,
              !.eaccept_map = SubSeq(e.eaccept_map,
                                     ((at - e.start) \div SE_PAGE_SIZE) + 1,
                                     ema_pages(e))]

\* EmaOptions::check
EmaOptions_check(o) ==
    IF o.addr # NoAddr /\ ~(is_page_aligned(o.addr) /\ is_within_enclave(o.addr, o.length))
    THEN "EINVAL"
    ELSE IF o.length = 0 \/ o.length % SE_PAGE_SIZE # 0 THEN "EINVAL"
    ELSE "OK"

\* Ema::allocate(options, apply_now): the node for [addr, addr+length);
\* with apply_now a COMMIT_NOW area has all its pages committed
Ema_allocate(o, addr, apply_now) ==
    Ema(addr, o.length, o.alloc_flags, o.alloc, o.typ, o.prot,
        IF apply_now /\ "COMMIT_NOW" \in o.alloc_flags
        THEN FullMap(o.length \div SE_PAGE_SIZE)
        ELSE ZeroMap(o.length \div SE_PAGE_SIZE))

set_eaccept_map_full(e) == [e EXCEPT !.eaccept_map = FullMap(ema_pages(e))]

(***************************************************************************)
(* Intrusive list cursors: a list is a sequence, a cursor an index, and    *)
(* the null cursor of list L is Len(L) + 1                                 *)
(***************************************************************************)
insert_before(L, i, e) == SubSeq(L, 1, i - 1) \o <<e>> \o SubSeq(L, i, Len(L))
remove_n(L, i, n) == SubSeq(L, 1, i - 1) \o SubSeq(L, i + n, Len(L))
replace_two(L, i, a, b) == SubSeq(L, 1, i - 1) \o <<a, b>> \o SubSeq(L, i + 1, Len(L))

\* the first cursor whose EMA is not lower than addr, or the null cursor
skip_lower(L, addr) ==
    LET S == {i \in 1..Len(L) : ~lower_than_addr(L[i], addr)}
    IN IF S = {} THEN Len(L) + 1 ELSE CHOOSE i \in S : \A j \in S : i <= j

\* the first cursor from `from` on whose EMA is higher than addr, or the null cursor
first_higher(L, from, addr) ==
    LET S == {i \in from..Len(L) : higher_than_addr(L[i], addr)}
    IN IF S = {} THEN Len(L) + 1 ELSE CHOOSE i \in S : \A j \in S : i <= j

list_of(mgr, typ) == IF typ = "Rts" THEN mgr.rts ELSE mgr.user
with_list(mgr, typ, L) == IF typ = "Rts" THEN [mgr EXCEPT !.rts = L] ELSE [mgr EXCEPT !.user = L]

(***************************************************************************)
(* VmMgr (vmmgr.rs)                                                        *)
(***************************************************************************)
\* VmMgr::check: the range type of [addr, addr+len), or EINVAL
VmMgr_check(addr, len) ==
    IF addr > 0 /\ ~(is_page_aligned(addr) /\ is_within_enclave(addr, len)) THEN "EINVAL"
    ELSE IF ~(len # 0 /\ len % SE_PAGE_SIZE = 0) THEN "EINVAL"
    ELSE IF is_within_rts_range(addr, len) THEN "Rts"
    ELSE IF is_within_user_range(addr, len) THEN "User"
    ELSE "EINVAL"

\* search_ema_range returns [found, list, idx, num]: list is the range list
\* as the call leaves it (split or not), idx the cursor of the start EMA
NotFound(L) == [found |-> FALSE, list |-> L, idx |-> 0, num |-> 0]
Found(L, idx, num) == [found |-> TRUE, list |-> L, idx |-> idx, num |-> num]

\* Ema::split at `at` of the EMA at cursor i, the right part inserted after it
split_at(L, i, at) == replace_two(L, i, ema_split_left(L[i], at), ema_split_right(L[i], at))

\* "Spliting end ema": the EMA at end_idx is split when it reaches beyond end
split_end(L, end, start_idx, end_idx, emas_num) ==
    IF ema_end(L[end_idx]) > end
    THEN Found(split_at(L, end_idx, end), start_idx, emas_num)
    ELSE Found(L, start_idx, emas_num)

\* the walk from the start EMA (cursor first) to the first EMA above end
\* (cursor stop), and the splits.  end_ema_ptr is the last EMA the walk
\* visited, or the (real) start EMA when the walk visited one EMA only
search_walk(L, start, end, continuous, split, first, stop) ==
    IF continuous /\ \E k \in (first + 1)..(stop - 1) : ema_end(L[k - 1]) # L[k].start
    THEN NotFound(L)
    ELSE IF ~split THEN Found(L, first, stop - first)
    ELSE IF L[first].start < start
    THEN split_end(split_at(L, first, start), end, first + 1,
                   IF stop - first = 1 THEN first + 1 ELSE stop, stop - first)
    ELSE split_end(L, end, first,
                   IF stop - first = 1 THEN first ELSE stop - 1, stop - first)

search_from(L, start, end, continuous, split, first) ==
    IF first > Len(L) \/ higher_than_addr(L[first], end) THEN NotFound(L)
    ELSE search_walk(L, start, end, continuous, split, first, first_higher(L, first, end))

search_ema_range(L, start, end, continuous, split) ==
    search_from(L, start, end, continuous, split, skip_lower(L, start))

\* clear_reserved_emas returns [found, list, idx]: idx is the cursor of the
\* EMA after the removed ones.  r is what search_ema_range returned
Cleared(found, L, idx) == [found |-> found, list |-> L, idx |-> idx]

\* the loops of clear_reserved_emas without the comparison of the allocator tags
clear_found_any_tag(L, alloc, r) ==
    IF ~r.found THEN Cleared(FALSE, L, 0)
    ELSE IF \E k \in r.idx..(r.idx + r.num - 1) : "RESERVED" \notin r.list[k].alloc_flags
    THEN Cleared(FALSE, r.list, 0)
    ELSE Cleared(TRUE, remove_n(r.list, r.idx, r.num), r.idx)

clear_found(L, alloc, r) ==
    IF ~r.found THEN Cleared(FALSE, L, 0)
    ELSE IF \E k \in r.idx..(r.idx + r.num - 1) :
               \/ "RESERVED" \notin r.list[k].alloc_flags
               \/ r.list[k].alloc # alloc
    THEN Cleared(FALSE, r.list, 0)
    ELSE Cleared(TRUE, remove_n(r.list, r.idx, r.num), r.idx)

clear_reserved_emas(L, start, end, alloc) ==
    clear_found(L, alloc, search_ema_range(L, start, end, TRUE, TRUE))

\* find_free_region_at: the cursor of the EMA after [addr, addr+len), or 0
RECURSIVE find_free_region_at_from(_, _, _, _)
find_free_region_at_from(L, i, addr, len) ==
    IF i > Len(L) THEN i
    ELSE IF L[i].start >= addr + len THEN i
    ELSE IF addr >= L[i].start + L[i].length THEN find_free_region_at_from(L, i + 1, addr, len)
    ELSE 0

\* find_free_region_at that takes every range as free, past the last EMA
find_free_region_at_end(L, addr, len) == Len(L) + 1

find_free_region_at(L, addr, len) == find_free_region_at_from(L, 1, addr, len)

\* find_free_region returns [found, addr, idx, via]: the address, the cursor
\* of the EMA after it, and the candidate that gave it
NoRegion == [found |-> FALSE, addr |-> 0, idx |-> 0, via |-> "none"]
Region(ok, addr, idx, via) ==
    IF ok THEN [found |-> TRUE, addr |-> addr, idx |-> idx, via |-> via] ELSE NoRegion

\* no ema in list
find_in_empty(len, align, typ) ==
    IF typ = "Rts" THEN
       IF user_region_mem_base >= len
       THEN Region(is_within_enclave(trim_to(user_region_mem_base - len, align), len),
                   trim_to(user_region_mem_base - len, align), 1, "empty")
       ELSE Region(is_within_enclave(
                       round_to(user_region_mem_base + user_region_mem_size, align), len),
                   round_to(user_region_mem_base + user_region_mem_size, align), 1, "empty")
    ELSE Region(is_within_user_range(round_to(user_region_mem_base, align), len),
                round_to(user_region_mem_base, align), 1, "empty")

\* the sweep of adjacent pairs: the first cursor i >= from whose gap to its
\* successor takes len bytes, or 0
RECURSIVE find_gap(_, _, _, _, _)
find_gap(L, i, len, align, typ) ==
    IF i + 1 > Len(L) THEN 0
    ELSE IF /\ aligned_end(L[i], align) <= L[i + 1].start
            /\ L[i + 1].start - aligned_end(L[i], align) >= len
            /\ (typ = "User" \/ is_within_rts_range(aligned_end(L[i], align), len))
    THEN i
    ELSE find_gap(L, i + 1, len, align, typ)

\* back to the first EMA: the candidate is trim_to!(start_first, align)
before_first_at(len, typ, addr) ==
    IF typ = "User"
    THEN Region(is_within_user_range(addr, len), addr, 1, "before_first")
    ELSE Region(is_within_enclave(addr, len) /\ is_within_rts_range(addr, len),
                addr, 1, "before_first")

before_first(L, len, align, typ) ==
    IF L[1].start < len THEN NoRegion
    ELSE before_first_at(len, typ, trim_to(L[1].start, align))

\* past the last EMA, at addr
past_last(L, len, align, typ, addr) ==
    IF /\ is_within_enclave(addr, len)
       /\ \/ typ = "Rts" /\ is_within_rts_range(addr, len)
          \/ typ = "User" /\ is_within_user_range(addr, len)
    THEN Region(TRUE, addr, Len(L) + 1, "past_last")
    ELSE before_first(L, len, align, typ)

\* g is the cursor the sweep stopped at, or 0
find_in_list(L, len, align, typ, g) ==
    IF g # 0 THEN Region(TRUE, aligned_end(L[g], align), g + 1, "gap")
    ELSE past_last(L, len, align, typ, aligned_end(L[Len(L)], align))

find_free_region(L, len, align, typ) ==
    IF Len(L) = 0 THEN find_in_empty(len, align, typ)
    ELSE find_in_list(L, len, align, typ, find_gap(L, 1, len, align, typ))

(***************************************************************************)
(* EMA operations (ema.rs)                                                 *)
(***************************************************************************)
\* bitmap positions of the pages of [start, start+size) in EMA e
page_range(e, start, size) ==
    (((start - e.start) \div SE_PAGE_SIZE) + 1)..((start + size - e.start) \div SE_PAGE_SIZE)

commit_check(e) == IF "RESERVED" \in e.alloc_flags THEN "EINVAL" ELSE "OK"
uncommit_check(e) == IF "RESERVED" \in e.alloc_flags THEN "EINVAL" ELSE "OK"
modify_perm_check(e) ==
    IF "RESERVED" \in e.alloc_flags \/ e.typ # "Reg" THEN "EINVAL" ELSE "OK"

\* Ema::commit: EACCEPT the pages of the range that are not committed yet
Ema_commit(e, start, size) ==
    [e EXCEPT !.eaccept_map =
        [i \in 1..ema_pages(e) |-> IF i \in page_range(e, start, size) THEN TRUE ELSE @[i]]]

\* Ema::uncommit: trim the committed pages of the range
Ema_uncommit(e, start, size) ==
    [e EXCEPT !.eaccept_map =
        [i \in 1..ema_pages(e) |-> IF i \in page_range(e, start, size) THEN FALSE ELSE @[i]]]

Ema_modify_perm(e, prot) == [e EXCEPT !.prot = prot]

Ema_change_to_tcs(e) == [e EXCEPT !.typ = "Tcs"]

\* whether the operation has to go to the host / the hardware for EMA e,
\* which is where it can fail with EFAULT
commit_needs_host(e, start, size) == \E i \in page_range(e, start, size) : ~e.eaccept_map[i]
uncommit_needs_host(e, start, size) == \E i \in page_range(e, start, size) : e.eaccept_map[i]
modify_perm_needs_host(e, prot) == e.prot # prot /\ \E i \in 1..ema_pages(e) : e.eaccept_map[i]
dealloc_needs_host(e) == \E i \in 1..ema_pages(e) : e.eaccept_map[i]

(***************************************************************************)
(* VmMgr operations (vmmgr.rs).  Each returns [mgr, ret, addr]: the        *)
(* manager as the call leaves it, the error code or "OK", and the address  *)
(* returned (alloc only); via names the way alloc found its address.       *)
(* fault names the targeted EMA (1, 2, ...) on which the host out-call or  *)
(* hardware operation fails, 0 for none.                                   *)
(***************************************************************************)
Result(mgr, ret, addr) == [mgr |-> mgr, ret |-> ret, addr |-> addr, via |-> "none"]

VmMgr_new == [rts |-> <<>>, user |-> <<>>]

\* next_ema is what find_free_region_at returned
insert_static(mgr, o, next_ema) ==
    IF next_ema = 0 THEN Result(mgr, "EINVAL", NoAddr)
    ELSE Result([mgr EXCEPT !.rts =
                    insert_before(mgr.rts, next_ema,
                                  IF "RESERVED" \notin o.alloc_flags
                                  THEN set_eaccept_map_full(Ema_allocate(o, o.addr, FALSE))
                                  ELSE Ema_allocate(o, o.addr, FALSE))],
                "OK", NoAddr)

init_static_region(mgr, o) ==
    IF o.addr = NoAddr THEN Result(mgr, "EINVAL", NoAddr)
    ELSE IF EmaOptions_check(o) # "OK" THEN Result(mgr, EmaOptions_check(o), NoAddr)
    ELSE insert_static(mgr, o, find_free_region_at(mgr.rts, o.addr, o.length))

\* the address resolution of alloc (lines 154-188) returns
\* [ret, list, addr, idx, via]
Resolved(ret, list, addr, idx, via) ==
    [ret |-> ret, list |-> list, addr |-> addr, idx |-> idx, via |-> via]

\* free is what find_free_region returned
free_found(L, free) ==
    IF free.found THEN Resolved("OK", L, free.addr, free.idx, free.via)
    ELSE Resolved("ENOMEM", L, NoAddr, 0, "none")

\* alloc_addr is None: find_free_region
free_search(L, o, typ) ==
    free_found(L, find_free_region(L, o.length, 2 ^ SE_PAGE_SHIFT, typ))

\* exist in emas list; cleared is what clear_reserved_emas returned
alloc_overlap(o, typ, cleared) ==
    IF cleared.found THEN Resolved("OK", cleared.list, o.addr, cleared.idx, "reserved")
    ELSE IF "FIXED" \in o.alloc_flags THEN Resolved("EEXIST", cleared.list, NoAddr, 0, "none")
    ELSE free_search(cleared.list, o, typ)

\* the hint; range is what search_ema_range returned
alloc_hinted(L, o, typ, range) ==
    IF range.found
    THEN alloc_overlap(o, typ, clear_reserved_emas(L, o.addr, o.addr + o.length, o.alloc))
    \* not exist in emas list
    ELSE IF find_free_region_at(L, o.addr, o.length) = 0 /\ "FIXED" \in o.alloc_flags
    THEN Resolved("EPERM", L, NoAddr, 0, "none")
    ELSE free_search(L, o, typ)

alloc_resolve(L, o, typ) ==
    IF o.addr = NoAddr THEN free_search(L, o, typ)
    ELSE alloc_hinted(L, o, typ, search_ema_range(L, o.addr, o.addr + o.length, FALSE, FALSE))

\* r is what the address resolution returned
alloc_insert(mgr, o, typ, fault, r) ==
    IF r.ret # "OK" THEN Result(with_list(mgr, typ, r.list), r.ret, NoAddr)
    \* Ema::allocate(&ema_options, true)? asks the host to back the range
    ELSE IF fault # 0 /\ "RESERVED" \notin o.alloc_flags
    THEN [Result(with_list(mgr, typ, r.list), "EFAULT", NoAddr) EXCEPT !.via = r.via]
    ELSE [Result(with_list(mgr, typ, insert_before(r.list, r.idx, Ema_allocate(o, r.addr, TRUE))),
                 "OK", r.addr) EXCEPT !.via = r.via]

alloc(mgr, o, typ, fault) ==
    IF EmaOptions_check(o) # "OK" THEN Result(mgr, EmaOptions_check(o), NoAddr)
    ELSE alloc_insert(mgr, o, typ, fault, alloc_resolve(list_of(mgr, typ), o, typ))

\* the part of [addr, end) that lies in EMA e
clamp_start(e, addr) == IF addr > e.start THEN addr ELSE e.start
clamp_end(e, end) == IF end < ema_end(e) THEN end ELSE ema_end(e)

\* the closures commit, uncommit and modify_perms hand to apply_commands,
\* named by the operation op
check(op, e) ==
    CASE op = "commit" -> commit_check(e)
      [] op = "uncommit" -> uncommit_check(e)
      [] op = "modify_perms" -> modify_perm_check(e)

\* the closure of commit, accepting every page of the EMA
commit_command_whole_ema(e, addr, end) == Ema_commit(e, e.start, e.length)

commit_command(e, addr, end) ==
    Ema_commit(e, clamp_start(e, addr), clamp_end(e, end) - clamp_start(e, addr))

\* the closure of uncommit, trimming every page of the EMA
uncommit_command_whole_ema(e, addr, end) == Ema_uncommit(e, e.start, e.length)

uncommit_command(e, addr, end) ==
    Ema_uncommit(e, clamp_start(e, addr), clamp_end(e, end) - clamp_start(e, addr))

commands(op, e, addr, end, prot) ==
    CASE op = "commit" -> commit_command(e, addr, end)
      [] op = "uncommit" -> uncommit_command(e, addr, end)
      [] op = "modify_perms" -> Ema_modify_perm(e, prot)

\* whether the command goes to the host or the hardware for EMA e
needs_host(op, e, addr, end, prot) ==
    CASE op = "commit" ->
             commit_needs_host(e, clamp_start(e, addr), clamp_end(e, end) - clamp_start(e, addr))
      [] op = "uncommit" ->
             uncommit_needs_host(e, clamp_start(e, addr), clamp_end(e, end) - clamp_start(e, addr))
      [] op = "modify_perms" -> modify_perm_needs_host(e, prot)

\* the first error of the check phase over EMAs idx .. idx+num-1, or "OK"
check_all(L, idx, num, op) ==
    IF \A k \in idx..(idx + num - 1) : check(op, L[k]) = "OK" THEN "OK"
    ELSE check(op, L[CHOOSE k \in idx..(idx + num - 1) :
                        /\ check(op, L[k]) # "OK"
                        /\ \A j \in idx..(k - 1) : check(op, L[j]) = "OK"])

\* list L with the command run on the EMAs idx .. idx+done-1
commanded(L, idx, done, op, addr, end, prot) ==
    [k \in 1..Len(L) |->
        IF k \in idx..(idx + done - 1) THEN commands(op, L[k], addr, end, prot) ELSE L[k]]

\* the command phase: the command fails on the fault-th targeted EMA when it
\* goes to the host
run_commands(mgr, typ, addr, end, op, prot, fault, r) ==
    IF fault \in 1..r.num /\ needs_host(op, r.list[r.idx + fault - 1], addr, end, prot)
    THEN Result(with_list(mgr, typ, commanded(r.list, r.idx, fault - 1, op, addr, end, prot)),
                "EFAULT", NoAddr)
    ELSE Result(with_list(mgr, typ, commanded(r.list, r.idx, r.num, op, addr, end, prot)),
                "OK", NoAddr)

\* chk is the outcome of the check phase
apply_checked(mgr, typ, addr, end, op, prot, fault, r, chk) ==
    IF chk # "OK" THEN Result(with_list(mgr, typ, r.list), chk, NoAddr)
    ELSE run_commands(mgr, typ, addr, end, op, prot, fault, r)

\* r is what search_ema_range returned
apply_found(mgr, typ, addr, end, op, prot, fault, r) ==
    IF ~r.found THEN Result(mgr, "EINVAL", NoAddr)
    ELSE apply_checked(mgr, typ, addr, end, op, prot, fault, r,
                       check_all(r.list, r.idx, r.num, op))

\* typ is what VmMgr::check returned
apply_in(mgr, addr, size, split, op, prot, fault, typ) ==
    IF typ = "EINVAL" THEN Result(mgr, "EINVAL", NoAddr)
    ELSE apply_found(mgr, typ, addr, addr + size, op, prot, fault,
                     search_ema_range(list_of(mgr, typ), addr, addr + size, TRUE, split))

apply_commands(mgr, addr, size, split, op, prot, fault) ==
    apply_in(mgr, addr, size, split, op, prot, fault, VmMgr_check(addr, size))

\* modify_perms without the test of the permissions
modify_perms_any_prot(mgr, addr, size, prot, fault) ==
    apply_commands(mgr, addr, size, TRUE, "modify_perms", prot, fault)

modify_perms(mgr, addr, size, prot, fault) ==
    IF "X" \in prot /\ "R" \notin prot THEN Result(mgr, "EINVAL", NoAddr)
    ELSE apply_commands(mgr, addr, size, TRUE, "modify_perms", prot, fault)

commit(mgr, addr, size, fault) ==
    apply_commands(mgr, addr, size, FALSE, "commit", ProtRW, fault)

uncommit(mgr, addr, size, fault) ==
    apply_commands(mgr, addr, size, FALSE, "uncommit", ProtRW, fault)

\* r is what search_ema_range returned.  remove() comes before
\* ema.dealloc()?, so the EMA whose dealloc fails has left the list too
dealloc_found(mgr, typ, fault, r) ==
    IF ~r.found THEN Result(mgr, "EINVAL", NoAddr)
    ELSE IF fault \in 1..r.num /\ dealloc_needs_host(r.list[r.idx + fault - 1])
    THEN Result(with_list(mgr, typ, remove_n(r.list, r.idx, fault)), "EFAULT", NoAddr)
    ELSE Result(with_list(mgr, typ, remove_n(r.list, r.idx, r.num)), "OK", NoAddr)

\* typ is what VmMgr::check returned
dealloc_in(mgr, addr, size, fault, typ) ==
    IF typ = "EINVAL" THEN Result(mgr, "EINVAL", NoAddr)
    ELSE dealloc_found(mgr, typ, fault,
                       search_ema_range(list_of(mgr, typ), addr, addr + size, FALSE, TRUE))

dealloc(mgr, addr, size, fault) == dealloc_in(mgr, addr, size, fault, VmMgr_check(addr, size))

\* r is what search_ema_range returned
modify_type_found(mgr, typ, fault, r) ==
    IF ~r.found THEN Result(mgr, "EINVAL", NoAddr)
    \* change_to_tcs()?
    ELSE IF r.list[r.idx].typ \notin {"Reg", "Tcs"}
    THEN Result(with_list(mgr, typ, r.list), "EPERM", NoAddr)
    ELSE IF fault # 0 /\ r.list[r.idx].typ # "Tcs"
    THEN Result(with_list(mgr, typ, r.list), "EFAULT", NoAddr)
    ELSE Result(with_list(mgr, typ, [r.list EXCEPT ![r.idx] = Ema_change_to_tcs(r.list[r.idx])]),
                "OK", NoAddr)

\* modify_type without the test of the size
modify_type_in_any_size(mgr, addr, size, new_page_typ, fault, typ) ==
    IF typ = "EINVAL" THEN Result(mgr, "EINVAL", NoAddr)
    ELSE IF new_page_typ # "Tcs" THEN Result(mgr, "EPERM", NoAddr)
    ELSE modify_type_found(mgr, typ, fault,
                           search_ema_range(list_of(mgr, typ), addr, addr + size, TRUE, TRUE))

\* typ is what VmMgr::check returned
modify_type_in(mgr, addr, size, new_page_typ, fault, typ) ==
    IF typ = "EINVAL" THEN Result(mgr, "EINVAL", NoAddr)
    ELSE IF new_page_typ # "Tcs" THEN Result(mgr, "EPERM", NoAddr)
    ELSE IF size # SE_PAGE_SIZE THEN Result(mgr, "EINVAL", NoAddr)
    ELSE modify_type_found(mgr, typ, fault,
                           search_ema_range(list_of(mgr, typ), addr, addr + size, TRUE, TRUE))

modify_type(mgr, addr, size, new_page_typ, fault) ==
    modify_type_in(mgr, addr, size, new_page_typ, fault, VmMgr_check(addr, size))

(***************************************************************************)
(* Reserve heap (alloc.rs).  A free block is [addr, size]; a chunk is      *)
(* [base, size, used]; the front of a list is its first element.  The      *)
(* header of a used block is the size the block was given, kept with its   *)
(* payload.                                                                *)
(***************************************************************************)
HEADER_SIZE == 8
EXACT_MATCH_INCREMENT == 8
MIN_BLOCK_SIZE == 16
INIT_MEM_SIZE == InitMemBlocks * EXACT_MATCH_INCREMENT
GUARD_SIZE == GuardBlocks * EXACT_MATCH_INCREMENT
MAX_EMALLOC_SIZE == MaxEmallocChunks * INIT_MEM_SIZE
MAX_EXACT_SIZE == MIN_BLOCK_SIZE + EXACT_MATCH_INCREMENT * (NUM_EXACT_LIST - 1)
\* size_of::<Chunk>(): base, size, used and the link
size_of_Chunk == 4 * HEADER_SIZE

max(a, b) == IF a >= b THEN a ELSE b
min(a, b) == IF a <= b THEN a ELSE b

\* the block footprint of a request of size bytes (emalloc, lines 430-431)
block_size_of(size) == max(round_to(size + HEADER_SIZE, EXACT_MATCH_INCREMENT), MIN_BLOCK_SIZE)

\* the list index of an exact block size, counted from 1
get_list_idx(size) ==
    IF size < MIN_BLOCK_SIZE THEN 1
    ELSE ((size - MIN_BLOCK_SIZE) \div EXACT_MATCH_INCREMENT) + 1

\* the size word of a block header: block_size() masks the low bits off,
\* set_alloced() sets the lowest
ALLOC_MASK == 1
block_size(word) == word - (word % EXACT_MATCH_INCREMENT)
set_alloced(word) == IF word % (2 * ALLOC_MASK) >= ALLOC_MASK THEN word ELSE word + ALLOC_MASK
clear_alloced(word) == block_size(word)

BlockFree(addr, size) == [addr |-> addr, size |-> size]
\* From<BlockFree> for BlockUsed and From<BlockUsed> for BlockFree: the size
\* word the conversion leaves in the header
BlockUsed_from(word) == set_alloced(block_size(word))
BlockFree_from(word) == clear_alloced(block_size(word))
Chunk(base, size) == [base |-> base, size |-> size, used |-> 0]

pop_front(L) == SubSeq(L, 2, Len(L))
push_front(L, x) == <<x>> \o L
remove_at(L, i) == SubSeq(L, 1, i - 1) \o SubSeq(L, i + 1, Len(L))

\* what get_free_block and alloc_from_chunks return: the block if any, the
\* list that gave it, and the heap as the call leaves it
NoBlock(rsv) == [found |-> FALSE, block |-> BlockFree(0, 0), via |-> "none", rsv |-> rsv]
SomeBlock(block, via, rsv) == [found |-> TRUE, block |-> block, via |-> via, rsv |-> rsv]

get_exact_block(rsv, bsize) ==
    IF Len(rsv.exact_blocks[get_list_idx(bsize)]) = 0 THEN NoBlock(rsv)
    ELSE SomeBlock(rsv.exact_blocks[get_list_idx(bsize)][1], "exact",
                   [rsv EXCEPT !.exact_blocks[get_list_idx(bsize)] = pop_front(@)])

\* the cursor of the first large block that takes bsize bytes, or 0
suit_block_first_fit(L, bsize) ==
    IF \A i \in 1..Len(L) : L[i].size < bsize THEN 0
    ELSE CHOOSE i \in 1..Len(L) :
            /\ L[i].size >= bsize
            /\ \A j \in 1..(i - 1) : L[j].size < bsize

\* the cursor of the most suitable large block: the first of the smallest
\* blocks that take bsize bytes, or 0
suit_block(L, bsize) ==
    IF \A i \in 1..Len(L) : L[i].size < bsize THEN 0
    ELSE CHOOSE i \in 1..Len(L) :
            /\ L[i].size >= bsize
            /\ \A j \in 1..Len(L) :
                  L[j].size >= bsize => (L[j].size > L[i].size \/ (L[j].size = L[i].size /\ j >= i))

\* i is the cursor of the most suitable large block, or 0
take_large_block(rsv, i) ==
    IF i = 0 THEN NoBlock(rsv)
    ELSE SomeBlock(rsv.large_blocks[i], "large", [rsv EXCEPT !.large_blocks = remove_at(@, i)])

get_free_block(rsv, bsize) ==
    IF bsize <= MAX_EXACT_SIZE THEN get_exact_block(rsv, bsize)
    ELSE take_large_block(rsv, suit_block(rsv.large_blocks, bsize))

\* put_free_block that has the large list only
put_free_block_large(rsv, block) == [rsv EXCEPT !.large_blocks = push_front(@, block)]

put_free_block(rsv, block) ==
    IF block.size <= MAX_EXACT_SIZE
    THEN [rsv EXCEPT !.exact_blocks[get_list_idx(block.size)] = push_front(@, block)]
    ELSE [rsv EXCEPT !.large_blocks = push_front(@, block)]

\* the cursor of the first chunk with bsize bytes left, or 0
chunk_with_room(chunks, bsize) ==
    IF \A i \in 1..Len(chunks) : chunks[i].size - chunks[i].used < bsize THEN 0
    ELSE CHOOSE i \in 1..Len(chunks) :
            /\ chunks[i].size - chunks[i].used >= bsize
            /\ \A j \in 1..(i - 1) : chunks[j].size - chunks[j].used < bsize

\* alloc_from_chunks that leaves chunk.used as it was
bump_chunk_no_bump(rsv, bsize, i) ==
    IF i = 0 THEN NoBlock(rsv)
    ELSE SomeBlock(BlockFree(rsv.chunks[i].base + rsv.chunks[i].used, bsize), "chunk", rsv)

\* i is the cursor of the first chunk with room, or 0
bump_chunk(rsv, bsize, i) ==
    IF i = 0 THEN NoBlock(rsv)
    ELSE SomeBlock(BlockFree(rsv.chunks[i].base + rsv.chunks[i].used, bsize), "chunk",
                   [rsv EXCEPT !.chunks[i].used = @ + bsize])

alloc_from_chunks(rsv, bsize) == bump_chunk(rsv, bsize, chunk_with_room(rsv.chunks, bsize))

\* the base the VM manager gives the next chunk: add_chunks reserves
\* increment + 2 * GUARD_SIZE bytes of the user region, above the regions it
\* reserved before, and places the chunk GUARD_SIZE bytes into them
next_chunk_base(chunks) ==
    IF Len(chunks) = 0 THEN INIT_MEM_SIZE + GUARD_SIZE
    ELSE chunks[1].base + chunks[1].size + 2 * GUARD_SIZE

\* write_chunk: the chunk header lies at the base of the memory it manages
write_chunk(rsv, base, size) ==
    [rsv EXCEPT !.chunks = push_front(@, Chunk(base + size_of_Chunk, size - size_of_Chunk))]

\* add_chunks that leaves incr_size as it was
add_chunks_of_same_incr(rsv, increment, vm) ==
    IF vm # "OK" THEN [ret |-> vm, rsv |-> rsv]
    ELSE IF Len(rsv.chunks) >= MaxChunks THEN [ret |-> "ENOMEM", rsv |-> rsv]
    ELSE [ret |-> "OK", rsv |-> write_chunk(rsv, next_chunk_base(rsv.chunks), increment)]

\* the codes the VM manager returns to add_chunks: alloc finds no free
\* region (ENOMEM), an out-call of alloc or commit fails (EFAULT)
VmCodes == {"OK", "ENOMEM", "EFAULT"}

\* add_chunks returns [ret, rsv]; vm is the code the VM manager returns for
\* the memory: add_chunks returns it when it is an error.  The user region
\* holds MaxChunks chunks.  increment is max(incr_size, rsize)
add_chunks_of(rsv, increment, vm) ==
    IF vm # "OK" THEN [ret |-> vm, rsv |-> rsv]
    ELSE IF Len(rsv.chunks) >= MaxChunks THEN [ret |-> "ENOMEM", rsv |-> rsv]
    ELSE [ret |-> "OK",
          rsv |-> [write_chunk(rsv, next_chunk_base(rsv.chunks), increment)
                      EXCEPT !.incr_size = min(rsv.incr_size * 2, MAX_EMALLOC_SIZE)]]

add_chunks(rsv, rsize, vm) == add_chunks_of(rsv, max(rsv.incr_size, rsize), vm)

\* the fields Reserve::new gives the heap before its add_chunks
Reserve_fields ==
    [exact_blocks |-> [i \in 1..NUM_EXACT_LIST |-> <<>>], large_blocks |-> <<>>,
     chunks |-> <<>>, incr_size |-> INIT_MEM_SIZE]

\* Reserve::new(size): the add_chunks of the constructor must succeed
Reserve_new(size) == add_chunks(Reserve_fields, size, "OK").rsv

\* emalloc returns [ret, payload, size, via, rsv]: size is the size word
\* the header of the used block holds
Emalloc_err(ret, rsv) == [ret |-> ret, payload |-> 0, size |-> 0, via |-> "none", rsv |-> rsv]
\* block_to_payload: the payload follows the header
block_to_payload(b) ==
    [ret |-> "OK", payload |-> b.block.addr + HEADER_SIZE,
     size |-> BlockUsed_from(b.block.size),
     via |-> b.via, rsv |-> b.rsv]

\* b is what the second alloc_from_chunks returned
emalloc_retry(rsv, b) == IF b.found THEN block_to_payload(b) ELSE Emalloc_err("ENOMEM", rsv)

\* g is what add_chunks returned
emalloc_grown(bsize, g) ==
    IF g.ret # "OK" THEN Emalloc_err(g.ret, g.rsv)
    ELSE emalloc_retry(g.rsv, alloc_from_chunks(g.rsv, bsize))

\* b is what the first alloc_from_chunks returned
emalloc_chunk(rsv, bsize, vm, b) ==
    IF b.found THEN block_to_payload(b)
    ELSE emalloc_grown(bsize, add_chunks(rsv, round_to(bsize + size_of_Chunk, INIT_MEM_SIZE), vm))

\* b is what get_free_block returned
emalloc_free(rsv, bsize, vm, b) ==
    IF b.found THEN block_to_payload(b)
    ELSE emalloc_chunk(rsv, bsize, vm, alloc_from_chunks(rsv, bsize))

emalloc_sized(rsv, bsize, vm) == emalloc_free(rsv, bsize, vm, get_free_block(rsv, bsize))

emalloc(rsv, size, vm) == emalloc_sized(rsv, block_size_of(size), vm)

\* the cursor of the first chunk whose used part holds the block, or 0
find_chunk_with_block(chunks, block_addr, bsize) ==
    IF bsize = 0 THEN 0
    ELSE IF \A i \in 1..Len(chunks) :
               ~(block_addr >= chunks[i].base
                 /\ block_addr + bsize <= chunks[i].base + chunks[i].used)
    THEN 0
    ELSE CHOOSE i \in 1..Len(chunks) :
            /\ block_addr >= chunks[i].base
            /\ block_addr + bsize <= chunks[i].base + chunks[i].used
            /\ \A j \in 1..(i - 1) :
                  ~(block_addr >= chunks[j].base
                    /\ block_addr + bsize <= chunks[j].base + chunks[j].used)

\* efree that takes every block for the top of the bump
efree_block_always_top(rsv, block, c) ==
    IF c = 0 THEN [ret |-> "panic", rsv |-> rsv]
    ELSE [ret |-> "OK", rsv |-> [rsv EXCEPT !.chunks[c].used = @ - block.size]]

\* efree returns [ret, rsv]; c is the cursor of the owning chunk, or 0
efree_block(rsv, block, c) ==
    IF c = 0 THEN [ret |-> "panic", rsv |-> rsv]
    ELSE IF block.addr + block.size - rsv.chunks[c].base = rsv.chunks[c].used
    THEN [ret |-> "OK", rsv |-> [rsv EXCEPT !.chunks[c].used = @ - block.size]]
    ELSE [ret |-> "OK", rsv |-> put_free_block(rsv, block)]

\* efree that puts every block on a free list
efree_of_listed(rsv, block) == [ret |-> "OK", rsv |-> put_free_block(rsv, block)]

\* block is what payload_to_block returned
efree_of(rsv, block) ==
    efree_block(rsv, block, find_chunk_with_block(rsv.chunks, block.addr, block.size))

\* payload_to_block: the header lies HEADER_SIZE bytes below the payload;
\* size is the size word it holds
efree(rsv, payload, size) ==
    efree_of(rsv, BlockFree(payload - HEADER_SIZE, BlockFree_from(size)))

(***************************************************************************)
(* The state machine: the VM manager behind its lock, one action per       *)
(* public entry point.  last records the latest call: the entry point,     *)
(* its return code and the way alloc found its address.                    *)
(***************************************************************************)
VARIABLES vmmgr, last, reserve, payloads, once, thread, locks, serial, workload

vars == <<vmmgr, last, reserve, payloads, once, thread, locks, serial, workload, layout>>

\* no workload is run
NoWorkload == [script |-> <<>>, run |-> 0, pos |-> 0, slots |-> <<>>, high |-> 0, chunks |-> 0]

\* no thread holds any of the three locks
Unlocked == [l \in {"VMMGR", "RSRV_ALLOCATOR", "STATIC"} |-> [owner |-> 0, count |-> 0]]

Threads == 1..NumThreads

Pages == ElrangeBasePage..(ElrangeBasePage + ElrangePages - 1)

\* the addresses and lengths the callers of the state machine pass
AddrChoices == {p * SE_PAGE_SIZE : p \in Pages}
LenChoices == {n * SE_PAGE_SIZE : n \in 1..MaxLenPages}
\* every argument a caller may pass: also 0, the page before ELRANGE, a
\* misaligned address, a length of 0 and a length that is no whole page
ArgAddrs == AddrChoices \cup {0, elrange_base - SE_PAGE_SIZE, elrange_base + 1}
ArgLens == LenChoices \cup {0, SE_PAGE_SIZE + 1}
\* the requests the callers of alloc make: alloc_flags and allocator tag
AllocChoices == {<<{"RESERVED"}, "Static">>,
                 <<{"COMMIT_ON_DEMAND", "FIXED"}, "Static">>,
                 <<{"COMMIT_NOW", "FIXED"}, "Reserve">>}
\* the requests init_rts_emas makes (init.rs)
StaticChoices == {<<{"RESERVED", "SYSTEM"}, "Reserve">>, <<{"SYSTEM"}, "Reserve">>}
ProtChoices == {{"R"}, {"X"}}
\* the sim and hyper builds: out-calls are no-ops that succeed (ocall.rs, mod sw)
NoFault == {0}
\* the hw build: the out-call may fail on any of the first MaxFault targeted EMAs
MaxFault == 2
HwFaults == 0..MaxFault

\* EmaOptions::new(addr, length, alloc_flags) with info and alloc set
EmaOptions(addr, length, flags, tag) ==
    [addr |-> addr, length |-> length, alloc_flags |-> flags, alloc |-> tag,
     typ |-> IF "RESERVED" \in flags THEN "None" ELSE "Reg",
     prot |-> IF "RESERVED" \in flags THEN {} ELSE ProtRW]

Call(op, res) == [op |-> op, ret |-> res.ret, via |-> res.via]

ema_count(mgr) == Len(mgr.rts) + Len(mgr.user)

\* payloads holds, for each live payload, its address, the size in the
\* header of its block and the size that was requested
Init ==
    /\ vmmgr = VmMgr_new
    /\ last = Call("new", Result(VmMgr_new, "OK", NoAddr))
    /\ reserve = Reserve_new(INIT_MEM_SIZE)
    /\ payloads = <<>>
    /\ once = [VMMGR |-> "Complete", STATIC |-> "Complete", RSRV_ALLOCATOR |-> "Complete",
               news |-> 1]
    /\ thread = [t \in Threads |-> [pc |-> "idle", step |-> 0, calls |-> 0]]
    /\ locks = Unlocked
    /\ serial = VmMgr_new
    /\ workload = NoWorkload
    /\ layout = MmLayout

\* the entry point op returns res: the manager is as the call left it
Returns(op, res) ==
    /\ vmmgr' = res.mgr
    /\ last' = Call(op, res)
    /\ UNCHANGED <<reserve, payloads, once, thread, locks, serial, workload, layout>>

\* the loader registers the regions of the enclave image, which lie in the
\* RTS range
mm_init_static_region(Cap) ==
    \E addr \in AddrChoices \cup {NoAddr}, length \in LenChoices, c \in StaticChoices :
        /\ addr # NoAddr => is_within_rts_range(addr, length)
        /\ ema_count(vmmgr) < Cap
        /\ Returns("init_static_region",
                   init_static_region(vmmgr, EmaOptions(addr, length, c[1], c[2])))

mm_alloc(typ, Cap, Faults) ==
    \E addr \in AddrChoices \cup {NoAddr}, length \in LenChoices,
       c \in AllocChoices, fault \in Faults \cap {0, 1} :
        /\ ema_count(vmmgr) < Cap
        /\ Returns("alloc", alloc(vmmgr, EmaOptions(addr, length, c[1], c[2]), typ, fault))

mm_alloc_user(Cap, Faults) == mm_alloc("User", Cap, Faults)
mm_alloc_rts(Cap, Faults) == mm_alloc("Rts", Cap, Faults)

mm_dealloc(Faults) ==
    \E addr \in AddrChoices, size \in LenChoices, fault \in Faults :
        Returns("dealloc", dealloc(vmmgr, addr, size, fault))

mm_commit(Faults) ==
    \E addr \in AddrChoices, size \in LenChoices, fault \in Faults :
        Returns("commit", commit(vmmgr, addr, size, fault))

mm_uncommit(Faults) ==
    \E addr \in AddrChoices, size \in LenChoices, fault \in Faults :
        Returns("uncommit", uncommit(vmmgr, addr, size, fault))

mm_modify_type(Faults) ==
    \E addr \in AddrChoices, size \in LenChoices, t \in {"Tcs", "Trim"}, fault \in Faults :
        Returns("modify_type", modify_type(vmmgr, addr, size, t, fault))

mm_modify_perms(Faults) ==
    \E addr \in AddrChoices, size \in LenChoices, prot \in ProtChoices, fault \in Faults :
        Returns("modify_perms", modify_perms(vmmgr, addr, size, prot, fault))

\* Range-list management: the loader's static regions, alloc and dealloc
Next ==
    \/ mm_init_static_region(MaxEmas)
    \/ mm_alloc_user(MaxEmas, HwFaults)
    \/ mm_alloc_rts(MaxEmas, HwFaults)
    \/ mm_dealloc(HwFaults)

Spec == Init /\ [][Next]_vars

\* Page operations on the areas alloc creates
MaxPagedEmas == 2

NextPage ==
    \/ mm_alloc_user(MaxPagedEmas, NoFault)
    \/ mm_commit(HwFaults)
    \/ mm_uncommit(HwFaults)
    \/ mm_modify_perms(HwFaults)

SpecPage == Init /\ [][NextPage]_vars

\* Page type changes on the areas alloc creates
NextType ==
    \/ mm_alloc_user(MaxPagedEmas, NoFault)
    \/ mm_modify_type(HwFaults)

SpecType == Init /\ [][NextType]_vars

\* the sizes the callers of emalloc ask for: on and next to the multiples
\* of EXACT_MATCH_INCREMENT
ReqSizes == {n \in 0..MaxRequest : n % EXACT_MATCH_INCREMENT \in {0, 1}}

\* emalloc returns res for a request of size bytes
Emalloced(size, res) ==
    /\ reserve' = res.rsv
    /\ payloads' = IF res.ret = "OK"
                   THEN Append(payloads, [payload |-> res.payload, size |-> res.size, req |-> size])
                   ELSE payloads
    /\ last' = Call("emalloc", res)
    /\ UNCHANGED <<vmmgr, once, thread, locks, serial, workload, layout>>

\* efree of the i-th live payload returns res
Efreed(i, res) ==
    /\ reserve' = res.rsv
    /\ payloads' = remove_at(payloads, i)
    /\ last' = [op |-> "efree", ret |-> res.ret, via |-> "none"]
    /\ UNCHANGED <<vmmgr, once, thread, locks, serial, workload, layout>>

rsrv_emalloc ==
    \E size \in ReqSizes, vm \in VmCodes :
        /\ Len(payloads) < MaxLive
        /\ Emalloced(size, emalloc(reserve, size, vm))

rsrv_efree ==
    \E i \in 1..Len(payloads) :
        Efreed(i, efree(reserve, payloads[i].payload, payloads[i].size))

\* The reserve heap behind its lock
NextHeap ==
    \/ rsrv_emalloc
    \/ rsrv_efree

SpecHeap == Init /\ [][NextHeap]_vars

(***************************************************************************)
(* The growth of the reserve heap: the constructor's add_chunks and the    *)
(* add_chunks of emalloc, with a request that needs more than incr_size.   *)
(***************************************************************************)
\* the requests of the growing heap: the smallest, one that fills the first
\* chunk and one
\* whose rsize exceeds incr_size
GrowSizes == {0, INIT_MEM_SIZE - size_of_Chunk - HEADER_SIZE, LargeRequest}

\* the rsize emalloc passes to add_chunks for a request of size bytes
rsize_of(size) == round_to(block_size_of(size) + size_of_Chunk, INIT_MEM_SIZE)

\* the state inside Reserve::new, before its add_chunks
InitGrow ==
    /\ vmmgr = VmMgr_new
    /\ last = Call("new", Result(VmMgr_new, "OK", NoAddr))
    /\ reserve = Reserve_fields
    /\ payloads = <<>>
    /\ once = [VMMGR |-> "Complete", STATIC |-> "Complete", RSRV_ALLOCATOR |-> "Running",
               news |-> 0]
    /\ thread = [t \in Threads |-> [pc |-> "idle", step |-> 0, calls |-> 0]]
    /\ locks = Unlocked
    /\ serial = VmMgr_new
    /\ workload = NoWorkload
    /\ layout = MmLayout

\* Reserve::new(INIT_MEM_SIZE) of init_reserve_alloc returns
reserve_new ==
    /\ once.RSRV_ALLOCATOR = "Running"
    /\ reserve' = Reserve_new(INIT_MEM_SIZE)
    /\ once' = [once EXCEPT !.RSRV_ALLOCATOR = "Complete", !.news = 1]
    /\ last' = [op |-> "Reserve_new", ret |-> "OK", via |-> "none"]
    /\ UNCHANGED <<vmmgr, payloads, thread, locks, serial, workload, layout>>

grow_emalloc ==
    \E size \in GrowSizes, vm \in VmCodes :
        /\ once.RSRV_ALLOCATOR = "Complete"
        /\ Len(payloads) < MaxLive
        /\ Emalloced(size, emalloc(reserve, size, vm))

grow_efree ==
    /\ once.RSRV_ALLOCATOR = "Complete"
    /\ rsrv_efree

NextGrow ==
    \/ reserve_new
    \/ grow_emalloc
    \/ grow_efree

SpecGrow == InitGrow /\ [][NextGrow]_vars

(***************************************************************************)
(* A workload on the reserve heap: a script of emalloc and efree calls in  *)
(* which every payload is freed, run on the fresh heap and then run again. *)
(* The first run writes the script; slots holds the payload of the k-th    *)
(* emalloc of the run, high the most that the chunks of the first run had  *)
(* in use, chunks their number at its end.                                 *)
(***************************************************************************)
RECURSIVE used_from(_, _)
used_from(chunks, c) ==
    IF c > Len(chunks) THEN 0 ELSE chunks[c].used + used_from(chunks, c + 1)

\* the sum of chunk.used
used_sum(rsv) == used_from(rsv.chunks, 1)

\* the requests of the workloads
WorkSizes == {EXACT_MATCH_INCREMENT * k : k \in 1..MaxWorkBlocks}

Freed == [payload |-> 0, size |-> 0]
LiveSlots(slots) == {k \in 1..Len(slots) : slots[k] # Freed}

InitWorkload ==
    /\ vmmgr = VmMgr_new
    /\ last = Call("new", Result(VmMgr_new, "OK", NoAddr))
    /\ reserve = Reserve_new(INIT_MEM_SIZE)
    /\ payloads = <<>>
    /\ once = [VMMGR |-> "Complete", STATIC |-> "Complete", RSRV_ALLOCATOR |-> "Complete",
               news |-> 1]
    /\ thread = [t \in Threads |-> [pc |-> "idle", step |-> 0, calls |-> 0]]
    /\ locks = Unlocked
    /\ serial = VmMgr_new
    /\ workload = [NoWorkload EXCEPT !.run = 1]
    /\ layout = MmLayout

\* the call o of the workload is made: emalloc returns res, or efree of the
\* payload of slot o.arg returns res
work_done(o, res, w) ==
    /\ reserve' = res.rsv
    /\ last' = [op |-> o.op, ret |-> res.ret, via |-> "none"]
    /\ workload' =
          [w EXCEPT !.slots = IF o.op = "emalloc"
                              THEN Append(@, IF res.ret = "OK"
                                             THEN [payload |-> res.payload, size |-> res.size]
                                             ELSE Freed)
                              ELSE [@ EXCEPT ![o.arg] = Freed],
                    !.high = IF w.run = 1 THEN max(@, used_sum(res.rsv)) ELSE @]
    /\ UNCHANGED <<vmmgr, payloads, once, thread, locks, serial, layout>>

work_call(o, w) ==
    IF o.op = "emalloc" THEN work_done(o, emalloc(reserve, o.arg, "OK"), w)
    ELSE work_done(o, efree(reserve, workload.slots[o.arg].payload,
                            workload.slots[o.arg].size), w)

\* the first run makes a call and writes it to the script; it leaves room
\* in the script for the efree of every live payload
work_emalloc ==
    \E size \in WorkSizes :
        /\ workload.run = 1
        /\ Len(workload.script) + Cardinality(LiveSlots(workload.slots)) + 2 <= MaxScript
        /\ emalloc(reserve, size, "OK").ret = "OK"
        /\ work_call([op |-> "emalloc", arg |-> size],
                     [workload EXCEPT !.script = Append(@, [op |-> "emalloc", arg |-> size])])

work_efree ==
    \E k \in LiveSlots(workload.slots) :
        /\ workload.run = 1
        /\ work_call([op |-> "efree", arg |-> k],
                     [workload EXCEPT !.script = Append(@, [op |-> "efree", arg |-> k])])

\* every payload is freed: the workload is run again
work_again ==
    /\ workload.run \in 1..(MaxRuns - 1)
    /\ workload.script # <<>>
    /\ workload.run > 1 => workload.pos > Len(workload.script)
    /\ LiveSlots(workload.slots) = {}
    /\ workload' = [workload EXCEPT !.run = @ + 1, !.pos = 1, !.slots = <<>>,
                                    !.chunks = IF workload.run = 1 THEN Len(reserve.chunks)
                                               ELSE @]
    /\ UNCHANGED <<vmmgr, last, reserve, payloads, once, thread, locks, serial, layout>>

\* the next call of the script
work_replay ==
    /\ workload.run > 1
    /\ workload.pos <= Len(workload.script)
    /\ work_call(workload.script[workload.pos], [workload EXCEPT !.pos = @ + 1])

NextWorkload ==
    \/ work_emalloc
    \/ work_efree
    \/ work_again
    \/ work_replay

SpecWorkload == InitWorkload /\ [][NextWorkload]_vars

(***************************************************************************)
(* Initialization (init.rs, alloc.rs, vmmgr.rs): the three singletons      *)
(* behind their once-guards.  once holds the state of each guard and the   *)
(* number of runs of Reserve::new; thread holds, for each thread, where it *)
(* is in init_emm.                                                         *)
(***************************************************************************)
\* Once::call_once on a guard in state st: the caller runs the closure,
\* waits for the thread that runs it, or returns
call_once(st) ==
    CASE st = "Incomplete" -> "run"
      [] st = "Running" -> "wait"
      [] st = "Complete" -> "return"

\* init_emm with the reserve heap first
init_emm_reserve_first == <<"RSRV_ALLOCATOR", "VMMGR", "STATIC">>

\* init_emm: init_vmmgr, init_static_alloc, init_reserve_alloc, named by
\* the guard each of them calls call_once on
init_emm == <<"VMMGR", "STATIC", "RSRV_ALLOCATOR">>

\* the guard the thread is at
guard_of(th) == init_emm[th.step]

\* the thread after the call of step th.step has returned
after_call(th) ==
    IF th.step = Len(init_emm) THEN [th EXCEPT !.pc = "idle", !.step = 0]
    ELSE [th EXCEPT !.pc = "call_once", !.step = @ + 1]

\* the VM manager's part of add_chunks (alloc.rs:515-536): a RESERVED region
\* of increment and two guards, the chunk inside it, rsize bytes committed
\* the result carries the base of the chunk
add_chunks_commit(rsize, fault, r2) ==
    IF r2.ret # "OK" THEN r2
    ELSE [commit(r2.mgr, r2.addr, rsize, fault) EXCEPT !.addr = r2.addr]

\* add_chunks with the chunk at the base of the RESERVED region
add_chunks_fixed_no_guard(increment, rsize, fault, r1) ==
    IF r1.ret # "OK" THEN r1
    ELSE add_chunks_commit(rsize, fault,
                           alloc(r1.mgr,
                                 EmaOptions(r1.addr, increment,
                                            {"COMMIT_ON_DEMAND", "FIXED"}, "Static"),
                                 "User", fault))

add_chunks_fixed(increment, rsize, fault, r1) ==
    IF r1.ret # "OK" THEN r1
    ELSE add_chunks_commit(rsize, fault,
                           alloc(r1.mgr,
                                 EmaOptions(r1.addr + GuardPages * SE_PAGE_SIZE, increment,
                                            {"COMMIT_ON_DEMAND", "FIXED"}, "Static"),
                                 "User", fault))

\* add_chunks whose RESERVED region has its node from the reserve heap
add_chunks_vmmgr_reserve_node(mgr, increment, rsize, fault) ==
    add_chunks_fixed(increment, rsize, fault,
                     alloc(mgr,
                           EmaOptions(NoAddr, increment + 2 * GuardPages * SE_PAGE_SIZE,
                                      {"RESERVED"}, "Reserve"),
                           "User", 0))

add_chunks_vmmgr(mgr, increment, rsize, fault) ==
    add_chunks_fixed(increment, rsize, fault,
                     alloc(mgr,
                           EmaOptions(NoAddr, increment + 2 * GuardPages * SE_PAGE_SIZE,
                                      {"RESERVED"}, "Static"),
                           "User", 0))

\* add_chunks on the range lists, among the calls of the users of the
\* region: last holds the base the VM manager gave the chunk, the increment
\* and rsize
ChunkIncrements == {n * SE_PAGE_SIZE : n \in 1..MaxIncrementPages}

add_chunks_returned(increment, rsize, res) ==
    /\ vmmgr' = res.mgr
    /\ last' = [op |-> "add_chunks", ret |-> res.ret, via |-> "none", base |-> res.addr,
                increment |-> increment, rsize |-> rsize]
    /\ UNCHANGED <<reserve, payloads, once, thread, locks, serial, workload, layout>>

add_chunks_call ==
    \E increment \in ChunkIncrements, rsize \in ChunkIncrements, fault \in {0, 1} :
        /\ rsize <= increment
        /\ ema_count(vmmgr) < MaxEmas
        /\ add_chunks_returned(increment, rsize,
                               add_chunks_vmmgr(vmmgr, increment, rsize, fault))

NextChunks ==
    \/ add_chunks_call
    \/ mm_alloc_user(MaxEmas, NoFault)
    \/ mm_dealloc(NoFault)

\* an image whose user region holds a chunk longer than what is committed
\* of it, between its two guards
ChunkLayout == [elrange_pages |-> ChunkElrangePages, user_pages |-> ChunkUserPages]

InitChunks ==
    /\ vmmgr = VmMgr_new
    /\ last = Call("new", Result(VmMgr_new, "OK", NoAddr))
    /\ reserve = Reserve_new(INIT_MEM_SIZE)
    /\ payloads = <<>>
    /\ once = [VMMGR |-> "Complete", STATIC |-> "Complete", RSRV_ALLOCATOR |-> "Complete",
               news |-> 1]
    /\ thread = [t \in Threads |-> [pc |-> "idle", step |-> 0, calls |-> 0]]
    /\ locks = Unlocked
    /\ serial = VmMgr_new
    /\ workload = NoWorkload
    /\ layout = ChunkLayout

SpecChunks == InitChunks /\ [][NextChunks]_vars

\* the state before init_emm
InitEmm ==
    /\ vmmgr = VmMgr_new
    /\ last = Call("new", Result(VmMgr_new, "OK", NoAddr))
    /\ reserve = Reserve_new(INIT_MEM_SIZE)
    /\ payloads = <<>>
    /\ once = [VMMGR |-> "Incomplete", STATIC |-> "Incomplete",
               RSRV_ALLOCATOR |-> "Incomplete", news |-> 0]
    /\ thread = [t \in Threads |-> [pc |-> "idle", step |-> 0, calls |-> 0]]
    /\ locks = Unlocked
    /\ serial = VmMgr_new
    /\ workload = NoWorkload
    /\ layout = MmLayout

\* thread t calls init_emm
init_emm_call(t) ==
    /\ thread[t].pc = "idle"
    /\ thread[t].calls < MaxInitCalls
    /\ thread' = [thread EXCEPT ![t] = [pc |-> "call_once", step |-> 1, calls |-> @.calls + 1]]
    /\ UNCHANGED <<vmmgr, last, reserve, payloads, once, locks, serial, workload, layout>>

\* call_once finds the singleton initialized
call_once_return(t) ==
    /\ thread[t].pc = "call_once"
    /\ call_once(once[guard_of(thread[t])]) = "return"
    /\ thread' = [thread EXCEPT ![t] = after_call(@)]
    /\ UNCHANGED <<vmmgr, last, reserve, payloads, once, locks, serial, workload, layout>>

\* call_once finds the guard untouched and takes it
call_once_run(t) ==
    /\ thread[t].pc = "call_once"
    /\ call_once(once[guard_of(thread[t])]) = "run"
    /\ once' = [once EXCEPT ![guard_of(thread[t])] = "Running"]
    /\ thread' = [thread EXCEPT ![t].pc = "closure"]
    /\ UNCHANGED <<vmmgr, last, reserve, payloads, locks, serial, workload, layout>>

\* the closures of init_vmmgr and init_static_alloc
init_closure(t) ==
    /\ thread[t].pc = "closure"
    /\ guard_of(thread[t]) \in {"VMMGR", "STATIC"}
    /\ once' = [once EXCEPT ![guard_of(thread[t])] = "Complete"]
    /\ thread' = [thread EXCEPT ![t] = after_call(@)]
    /\ UNCHANGED <<vmmgr, last, reserve, payloads, locks, serial, workload, layout>>

\* Reserve::new has run add_chunks, which returned res
Reserve_constructed(t, res) ==
    /\ vmmgr' = res.mgr
    /\ last' = Call("add_chunks", res)
    /\ once' = [once EXCEPT !.RSRV_ALLOCATOR = IF res.ret = "OK" THEN "Complete" ELSE @,
                            !.news = @ + 1]
    /\ thread' = [thread EXCEPT ![t] = IF res.ret = "OK" THEN after_call(@)
                                       ELSE [@ EXCEPT !.pc = "panic"]]
    /\ UNCHANGED <<reserve, payloads, locks, serial, workload, layout>>

\* the closure of init_reserve_alloc: Reserve::new(INIT_MEM_SIZE), whose
\* add_chunks unwraps VMMGR and, for the EMA nodes, STATIC
init_reserve_closure(t) ==
    /\ thread[t].pc = "closure"
    /\ guard_of(thread[t]) = "RSRV_ALLOCATOR"
    /\ IF once.VMMGR = "Complete" /\ once.STATIC = "Complete"
       THEN \E fault \in {0, 1} :
               Reserve_constructed(t, add_chunks_vmmgr(vmmgr, InitMemPages * SE_PAGE_SIZE,
                                                       InitMemPages * SE_PAGE_SIZE, fault))
       ELSE /\ thread' = [thread EXCEPT ![t].pc = "panic"]
            /\ once' = [once EXCEPT !.news = @ + 1]
            /\ UNCHANGED <<vmmgr, last, reserve, payloads, locks, serial, workload, layout>>

NextInit ==
    \E t \in Threads :
        \/ init_emm_call(t)
        \/ call_once_return(t)
        \/ call_once_run(t)
        \/ init_closure(t)
        \/ init_reserve_closure(t)

SpecInit == InitEmm /\ [][NextInit]_vars

(***************************************************************************)
(* The three locks (vmmgr.rs:50, alloc.rs:60-63): VMMGR behind a reentrant *)
(* spin lock, RSRV_ALLOCATOR and STATIC behind spin locks.  A thread is at *)
(* a place of RsrvAlloc::allocate, RsrvAlloc::deallocate or mm_alloc; the  *)
(* places where it asks for a lock are steps of their own.  The range      *)
(* lists themselves are those of Spec; the VM manager's answer to          *)
(* add_chunks is vm, as in SpecHeap.                                       *)
(***************************************************************************)
LockThreads == 1..NumLockThreads

\* lock() returns at once: the lock is free, or it is the reentrant lock
\* and the thread owns it
can_lock(lk, l, t) == lk[l].owner = 0 \/ (l = "VMMGR" /\ lk[l].owner = t)

lock(lk, l, t) == [lk EXCEPT ![l] = [owner |-> t, count |-> @.count + 1]]

\* the guard is dropped
unlock(lk, l) ==
    [lk EXCEPT ![l] = IF @.count = 1 THEN [owner |-> 0, count |-> 0]
                      ELSE [@ EXCEPT !.count = @ - 1]]

\* the lock the thread asks for where it is
requests(th) ==
    CASE th.pc = "mm_alloc" -> "VMMGR"
      [] th.pc = "add_chunks" -> "VMMGR"
      [] th.pc \in {"allocate", "deallocate"} -> "RSRV_ALLOCATOR"
      [] th.pc = "static_allocate" -> "STATIC"
      [] OTHER -> "none"

\* where the thread is once it has the lock
locked_pc(th) ==
    CASE th.pc = "mm_alloc" -> "alloc"
      [] th.pc = "add_chunks" -> "static_allocate"
      [] th.pc = "allocate" -> "emalloc"
      [] th.pc = "deallocate" -> "efree"
      [] th.pc = "static_allocate" -> "static_locked"

\* the allocation of the EMA node: AllocType::Static goes to
\* StaticAlloc::allocate, AllocType::Reserve to RsrvAlloc::allocate
node_allocate(tag) == IF tag = "Static" THEN "static_allocate" ELSE "allocate"

\* the area mm_alloc asks for
LockOptions(th) == EmaOptions(NoAddr, th.len, {"RESERVED"}, th.tag)
\* its lengths: a page, and more than the user region holds
LockLens == {SE_PAGE_SIZE, (UserPages + 1) * SE_PAGE_SIZE}
\* the size of an EMA node, which is also what threads ask RsrvAlloc for
NodeSize == 2 * EXACT_MATCH_INCREMENT
LockSizes == {NodeSize}

Idle == [pc |-> "idle", entry |-> "none", size |-> 0, tag |-> "none", len |-> 0]

InitLocks ==
    /\ vmmgr = VmMgr_new
    /\ last = Call("new", Result(VmMgr_new, "OK", NoAddr))
    /\ reserve = Reserve_new(INIT_MEM_SIZE)
    /\ payloads = <<>>
    /\ once = [VMMGR |-> "Complete", STATIC |-> "Complete", RSRV_ALLOCATOR |-> "Complete",
               news |-> 1]
    /\ thread = [t \in LockThreads |-> Idle]
    /\ locks = Unlocked
    /\ serial = VmMgr_new
    /\ workload = NoWorkload
    /\ layout = MmLayout

\* thread t calls RsrvAlloc::allocate
RsrvAlloc_allocate(t) ==
    \E size \in LockSizes :
        /\ thread[t].pc = "idle"
        /\ Len(payloads) < MaxLockLive
        /\ thread' = [thread EXCEPT ![t] = [pc |-> "allocate", entry |-> "allocate",
                                            size |-> size, tag |-> "none", len |-> 0]]
        /\ UNCHANGED <<vmmgr, last, reserve, payloads, once, locks, serial, workload, layout>>

\* thread t calls RsrvAlloc::deallocate on a payload it owns from now on
RsrvAlloc_deallocate(t) ==
    \E i \in 1..Len(payloads) :
        /\ thread[t].pc = "idle"
        /\ thread' = [thread EXCEPT ![t] = [pc |-> "deallocate", entry |-> "deallocate",
                                            size |-> payloads[i].size,
                                            tag |-> payloads[i].payload, len |-> 0]]
        /\ payloads' = remove_at(payloads, i)
        /\ UNCHANGED <<vmmgr, last, reserve, once, locks, serial, workload, layout>>

\* thread t calls mm_alloc for an area whose node comes from tag
mm_alloc_enter(t) ==
    \E tag \in {"Static", "Reserve"}, len \in LockLens :
        /\ thread[t].pc = "idle"
        /\ ema_count(vmmgr) < MaxEmas
        /\ thread' = [thread EXCEPT ![t] = [pc |-> "mm_alloc", entry |-> "mm_alloc",
                                            size |-> NodeSize, tag |-> tag, len |-> len]]
        /\ UNCHANGED <<vmmgr, last, reserve, payloads, once, locks, serial, workload, layout>>

\* the lock thread t asks for is handed to it
lock_acquired(t) ==
    /\ requests(thread[t]) # "none"
    /\ can_lock(locks, requests(thread[t]), t)
    /\ locks' = lock(locks, requests(thread[t]), t)
    /\ thread' = [thread EXCEPT ![t].pc = locked_pc(thread[t])]
    /\ UNCHANGED <<vmmgr, last, reserve, payloads, once, serial, workload, layout>>

\* VmMgr::alloc of thread t, which holds VMMGR, returns res without a node
alloc_failed(t, res) ==
    /\ res.ret # "OK"
    /\ last' = Call("alloc", res)
    /\ locks' = unlock(locks, "VMMGR")
    /\ thread' = [thread EXCEPT ![t] = Idle]
    /\ UNCHANGED <<vmmgr, reserve, payloads, once, serial, workload, layout>>

\* VmMgr::alloc of thread t has found the region and allocates the node
alloc_node(t, res) ==
    /\ res.ret = "OK"
    /\ thread' = [thread EXCEPT ![t].pc = node_allocate(thread[t].tag)]
    /\ UNCHANGED <<vmmgr, last, reserve, payloads, once, locks, serial, workload, layout>>

vmmgr_alloc(t) ==
    /\ thread[t].pc = "alloc"
    /\ \/ alloc_failed(t, alloc(vmmgr, LockOptions(thread[t]), "User", 0))
       \/ alloc_node(t, alloc(vmmgr, LockOptions(thread[t]), "User", 0))

\* the call of thread t ends: the node allocation returned ret, every lock
\* but those of lk is dropped; mm_alloc inserts the area and drops VMMGR
returned(t, ret, lk, res) ==
    /\ thread' = [thread EXCEPT ![t] = Idle]
    /\ IF thread[t].entry = "mm_alloc"
       THEN /\ locks' = unlock(lk, "VMMGR")
            /\ vmmgr' = IF ret = "OK" THEN res.mgr ELSE vmmgr
            /\ last' = [op |-> "alloc", ret |-> ret, via |-> "none"]
       ELSE /\ locks' = lk
            /\ last' = [op |-> "emalloc", ret |-> ret, via |-> "none"]
            /\ UNCHANGED vmmgr
    /\ UNCHANGED <<once, serial, workload, layout>>

\* emalloc of thread t, which holds RSRV_ALLOCATOR, returns res
emalloc_returned(t, res, lk) ==
    /\ reserve' = res.rsv
    /\ payloads' = IF res.ret = "OK"
                   THEN Append(payloads, [payload |-> res.payload, size |-> res.size,
                                          req |-> thread[t].size])
                   ELSE payloads
    /\ returned(t, res.ret, unlock(lk, "RSRV_ALLOCATOR"),
                alloc(vmmgr, LockOptions(thread[t]), "User", 0))

\* emalloc finds the block in the lists or in a chunk
emalloc_served(t, res) ==
    /\ res.ret = "OK"
    /\ emalloc_returned(t, res, locks)

\* emalloc finds none and calls add_chunks, which asks for VMMGR
emalloc_add_chunks(t, res) ==
    /\ res.ret # "OK"
    /\ thread' = [thread EXCEPT ![t].pc = "add_chunks"]
    /\ UNCHANGED <<vmmgr, last, reserve, payloads, once, locks, serial, workload, layout>>

rsrv_emalloc_locked(t) ==
    /\ thread[t].pc = "emalloc"
    /\ \/ emalloc_served(t, emalloc(reserve, thread[t].size, "ENOMEM"))
       \/ emalloc_add_chunks(t, emalloc(reserve, thread[t].size, "ENOMEM"))

\* efree of thread t, which holds RSRV_ALLOCATOR
rsrv_efree_locked(t) ==
    /\ thread[t].pc = "efree"
    /\ reserve' = efree(reserve, thread[t].tag, thread[t].size).rsv
    /\ locks' = unlock(locks, "RSRV_ALLOCATOR")
    /\ last' = [op |-> "efree", ret |-> "OK", via |-> "none"]
    /\ thread' = [thread EXCEPT ![t] = Idle]
    /\ UNCHANGED <<vmmgr, payloads, once, serial, workload, layout>>

\* StaticAlloc::allocate of thread t hands out the node and drops STATIC:
\* inside add_chunks the two areas are made, VMMGR is dropped and emalloc
\* goes on; inside mm_alloc the area is inserted
static_allocated(t) ==
    /\ thread[t].pc = "static_locked"
    /\ IF locks["RSRV_ALLOCATOR"].owner = t
       THEN \E vm \in VmCodes :
               emalloc_returned(t, emalloc(reserve, thread[t].size, vm),
                                unlock(unlock(locks, "STATIC"), "VMMGR"))
       ELSE /\ returned(t, "OK", unlock(locks, "STATIC"),
                        alloc(vmmgr, LockOptions(thread[t]), "User", 0))
            /\ UNCHANGED <<reserve, payloads>>

NextLocks ==
    \E t \in LockThreads :
        \/ RsrvAlloc_allocate(t)
        \/ RsrvAlloc_deallocate(t)
        \/ mm_alloc_enter(t)
        \/ lock_acquired(t)
        \/ vmmgr_alloc(t)
        \/ rsrv_emalloc_locked(t)
        \/ rsrv_efree_locked(t)
        \/ static_allocated(t)

SpecLocks == InitLocks /\ [][NextLocks]_vars

(***************************************************************************)
(* Concurrent calls of the mm_* entry points (vmmgr.rs:57-95).  Each entry *)
(* point takes the lock of VMMGR and calls the method of VmMgr under it.   *)
(* The methods built on apply_commands run in two steps, the search and    *)
(* check phase and the command phase; alloc and dealloc run in one.  The   *)
(* arguments of a call are drawn when it has the lock: no other thread     *)
(* sees them before.  serial is the manager that results from running the  *)
(* calls one after another, in the order of their returns.                 *)
(***************************************************************************)
\* the arguments the threads pass
ThreadAddrs == {user_region_mem_base, user_region_mem_base + SE_PAGE_SIZE}
ThreadLens == {SE_PAGE_SIZE, 2 * SE_PAGE_SIZE}
ThreadFlags == {{"COMMIT_NOW"}, {"COMMIT_ON_DEMAND"}}

ThreadCall(op, addr, size, flags, prot, fault) ==
    [op |-> op, addr |-> addr, size |-> size, flags |-> flags, prot |-> prot, fault |-> fault]

NoCall == ThreadCall("none", NoAddr, 0, {}, {}, 0)

AllocCalls ==
    {ThreadCall("alloc", NoAddr, n, f, ProtRW, 0) : n \in ThreadLens, f \in ThreadFlags}
DeallocCalls ==
    {ThreadCall("dealloc", a, n, {}, ProtRW, 0) : a \in ThreadAddrs, n \in ThreadLens}
ApplyCalls ==
    {ThreadCall(op, a, n, {}, IF op = "modify_perms" THEN {"R"} ELSE ProtRW, fault) :
        op \in {"commit", "uncommit", "modify_perms"}, a \in ThreadAddrs,
        n \in ThreadLens, fault \in {0, 1}}

\* an entry point that does not take the lock
entry_guard_none(op) == "none"

\* the lock an entry point takes before it calls the method of VmMgr
entry_guard(op) == "VMMGR"

\* the guard of the entry point is dropped at its return
entry_return(lk, guard) == IF guard = "none" THEN lk ELSE unlock(lk, guard)

\* the method of VmMgr the entry point calls
entry(mgr, c) ==
    CASE c.op = "alloc" ->
             alloc(mgr, EmaOptions(c.addr, c.size, c.flags, "Static"), "User", c.fault)
      [] c.op = "dealloc" -> dealloc(mgr, c.addr, c.size, c.fault)
      [] c.op = "commit" -> commit(mgr, c.addr, c.size, c.fault)
      [] c.op = "uncommit" -> uncommit(mgr, c.addr, c.size, c.fault)
      [] c.op = "modify_perms" -> modify_perms(mgr, c.addr, c.size, c.prot, c.fault)

\* what the search and check phase leaves to the command phase: the range
\* list, the cursor of the first targeted EMA and their number
NoPhase == [typ |-> "none", idx |-> 0, num |-> 0]
Failed(res) == [ok |-> FALSE, res |-> res, phase |-> NoPhase]
Checked(mgr, typ, r) ==
    [ok |-> TRUE, res |-> Result(with_list(mgr, typ, r.list), "OK", NoAddr),
     phase |-> [typ |-> typ, idx |-> r.idx, num |-> r.num]]

\* chk is the outcome of the check phase
check_checked(mgr, typ, r, chk) ==
    IF chk # "OK" THEN Failed(Result(with_list(mgr, typ, r.list), chk, NoAddr))
    ELSE Checked(mgr, typ, r)

\* r is what search_ema_range returned
check_found(mgr, typ, op, r) ==
    IF ~r.found THEN Failed(Result(mgr, "EINVAL", NoAddr))
    ELSE check_checked(mgr, typ, r, check_all(r.list, r.idx, r.num, op))

\* typ is what VmMgr::check returned
check_in(mgr, c, typ) ==
    IF typ = "EINVAL" THEN Failed(Result(mgr, "EINVAL", NoAddr))
    ELSE check_found(mgr, typ, c.op,
                     search_ema_range(list_of(mgr, typ), c.addr, c.addr + c.size, TRUE,
                                      c.op = "modify_perms"))

\* commit, uncommit and modify_perms up to the end of the check phase of
\* apply_commands
check_phase(mgr, c) ==
    IF c.op = "modify_perms" /\ "X" \in c.prot /\ "R" \notin c.prot
    THEN Failed(Result(mgr, "EINVAL", NoAddr))
    ELSE check_in(mgr, c, VmMgr_check(c.addr, c.size))

\* the command phase of apply_commands, from the cursor the check phase left
command_phase(mgr, c, ph) ==
    run_commands(mgr, ph.typ, c.addr, c.addr + c.size, c.op, c.prot, c.fault,
                 Found(list_of(mgr, ph.typ), ph.idx, ph.num))

Outside == [pc |-> "idle", call |-> NoCall, phase |-> NoPhase, seen |-> VmMgr_new]

InitThreads ==
    /\ vmmgr = VmMgr_new
    /\ last = Call("new", Result(VmMgr_new, "OK", NoAddr))
    /\ reserve = Reserve_new(INIT_MEM_SIZE)
    /\ payloads = <<>>
    /\ once = [VMMGR |-> "Complete", STATIC |-> "Complete", RSRV_ALLOCATOR |-> "Complete",
               news |-> 1]
    /\ thread = [t \in LockThreads |-> Outside]
    /\ locks = Unlocked
    /\ serial = VmMgr_new
    /\ workload = NoWorkload
    /\ layout = MmLayout

\* thread t calls an entry point, which asks for its guard
mm_enter(t) ==
    /\ thread[t].pc = "idle"
    /\ thread' = [thread EXCEPT ![t].pc = "enter"]
    /\ UNCHANGED <<vmmgr, last, reserve, payloads, once, locks, serial, workload, layout>>

\* the entry point of thread t has its guard
mm_locked(t) ==
    /\ thread[t].pc = "enter"
    /\ entry_guard("mm") = "none" \/ can_lock(locks, entry_guard("mm"), t)
    /\ locks' = IF entry_guard("mm") = "none" THEN locks ELSE lock(locks, entry_guard("mm"), t)
    /\ thread' = [thread EXCEPT ![t].pc = "locked"]
    /\ UNCHANGED <<vmmgr, last, reserve, payloads, once, serial, workload, layout>>

\* the entry point of thread t returns res for call c
mm_returns(t, c, res) ==
    /\ vmmgr' = res.mgr
    /\ last' = Call(c.op, res)
    /\ serial' = entry(serial, c).mgr
    /\ locks' = entry_return(locks, entry_guard(c.op))
    /\ thread' = [thread EXCEPT ![t] = Outside]
    /\ UNCHANGED <<reserve, payloads, once, workload, layout>>

\* mm_alloc and mm_dealloc of thread t
mm_alloc_dealloc(t) ==
    \E c \in AllocCalls \cup DeallocCalls :
        /\ thread[t].pc = "locked"
        /\ c.op = "alloc" => ema_count(vmmgr) < MaxPagedEmas
        /\ mm_returns(t, c, entry(vmmgr, c))

\* the check phase of call c of thread t ended as p
mm_checked(t, c, p) ==
    IF p.ok
    THEN /\ vmmgr' = p.res.mgr
         /\ thread' = [thread EXCEPT ![t] = [pc |-> "commands", call |-> c,
                                             phase |-> p.phase, seen |-> p.res.mgr]]
         /\ UNCHANGED <<last, reserve, payloads, once, locks, serial, workload, layout>>
    ELSE mm_returns(t, c, p.res)

\* mm_commit, mm_uncommit and mm_modify_perms of thread t: search and check
mm_check(t) ==
    \E c \in ApplyCalls :
        /\ thread[t].pc = "locked"
        /\ mm_checked(t, c, check_phase(vmmgr, c))

\* and the commands
mm_commands(t) ==
    /\ thread[t].pc = "commands"
    /\ mm_returns(t, thread[t].call, command_phase(vmmgr, thread[t].call, thread[t].phase))

NextThreads ==
    \E t \in LockThreads :
        \/ mm_enter(t)
        \/ mm_locked(t)
        \/ mm_alloc_dealloc(t)
        \/ mm_check(t)
        \/ mm_commands(t)

SpecThreads == InitThreads /\ [][NextThreads]_vars

(***************************************************************************)
(* Properties.  A property of an operation is stated over every argument   *)
(* the operation may be given in the current state of the manager.         *)
(***************************************************************************)
RangeTypes == {"Rts", "User"}
ArgFlags == {{"RESERVED"}, {"COMMIT_ON_DEMAND"}, {"COMMIT_NOW"},
             {"RESERVED", "FIXED"}, {"COMMIT_ON_DEMAND", "FIXED"}, {"COMMIT_NOW", "FIXED"}}
ArgTags == {"Static", "Reserve"}
\* the options of every call of alloc, and those that carry an address
ArgOptions ==
    {EmaOptions(a, l, f, t) : a \in ArgAddrs \cup {NoAddr}, l \in ArgLens,
                              f \in ArgFlags, t \in ArgTags}
HintOptions == {o \in ArgOptions : o.addr # NoAddr /\ EmaOptions_check(o) = "OK"}

\* adjacent EMAs a, b of a list: a.end <= b.start
Sorted(L) == \A k \in 1..(Len(L) - 1) : ema_end(L[k]) <= L[k + 1].start
\* the EMAs of L that share an address with [start, end)
Overlapping(L, start, end) == {k \in 1..Len(L) : L[k].start < end /\ ema_end(L[k]) > start}
\* the pages of a list with what the list records of each: one element for
\* each page of each EMA, whatever the EMA bounds it lies in
PagesOf(L) ==
    UNION {{<<L[k].start + (i - 1) * SE_PAGE_SIZE, L[k].alloc_flags, L[k].alloc, L[k].typ,
              L[k].prot, L[k].eaccept_map[i]>> : i \in 1..ema_pages(L[k])} : k \in 1..Len(L)}

\* C1: after any sequence of calls each range list is sorted by start and
\* pairwise non-overlapping: adjacent EMAs (a, b) satisfy a.end <= b.start
C1_ListsSortedDisjoint == Sorted(vmmgr.rts) /\ Sorted(vmmgr.user)

\* C2: every address a successful alloc of length len returns lies within
\* the enclave and within the range (RTS or USER) the call names
C2_AllocWithinRange ==
    \A typ \in RangeTypes, o \in ArgOptions :
        LET res == alloc(vmmgr, o, typ, 0)
        IN res.ret = "OK" =>
             /\ is_within_enclave(res.addr, o.length)
             /\ typ = "Rts" => is_within_rts_range(res.addr, o.length)
             /\ typ = "User" => is_within_user_range(res.addr, o.length)

\* C3: alloc with an address whose range overlaps no EMA of the selected
\* list accepts it: on success it returns exactly that address and the new
\* EMA starts there
C3_FreeHintAccepted ==
    \A typ \in RangeTypes, o \in HintOptions :
        LET L == list_of(vmmgr, typ)
            res == alloc(vmmgr, o, typ, 0)
        IN (Overlapping(L, o.addr, o.addr + o.length) = {} /\ res.ret = "OK") =>
             /\ res.addr = o.addr
             /\ \E k \in 1..Len(list_of(res.mgr, typ)) :
                   /\ list_of(res.mgr, typ)[k].start = o.addr
                   /\ list_of(res.mgr, typ)[k].length = o.length

\* C4: alloc with FIXED and a range that overlaps at least one EMA that is
\* not RESERVED fails with EEXIST and leaves the range list as it was
C4_FixedOverlapUnchanged ==
    \A typ \in RangeTypes, o \in HintOptions :
        LET L == list_of(vmmgr, typ)
            res == alloc(vmmgr, o, typ, 0)
        IN ("FIXED" \in o.alloc_flags
            /\ \E k \in Overlapping(L, o.addr, o.addr + o.length) :
                  "RESERVED" \notin L[k].alloc_flags) =>
             /\ res.ret = "EEXIST"
             /\ res.mgr = vmmgr

\* whether every EMA of S is RESERVED and carries the allocator tag
ReservedSameTag(L, S, tag) ==
    \A k \in S : "RESERVED" \in L[k].alloc_flags /\ L[k].alloc = tag
\* the EMAs the list holds from its first EMA overlapping [start, end) up to
\* its first later EMA that starts at or above end
RunOf(L, start, end) ==
    LET ov == Overlapping(L, start, end)
        first == CHOOSE k \in ov : \A j \in ov : k <= j
    IN IF ov = {} THEN {}
       ELSE {k \in first..Len(L) : \A j \in first..k : L[j].start < end}
\* each EMA of the run starts where the EMA before it in the list ends
Adjacent(L, S) == \A k \in S : (k - 1) \in S => ema_end(L[k - 1]) = L[k].start
\* the outcome of an alloc that replaces the RESERVED EMAs of [addr, addr+length)
Replaced(L, L2, o, res) ==
    /\ res.ret = "OK"
    /\ res.addr = o.addr
    \* the range is covered by exactly the one new EMA
    /\ \E k \in 1..Len(L2) :
          /\ Overlapping(L2, o.addr, o.addr + o.length) = {k}
          /\ L2[k] = Ema_allocate(o, o.addr, TRUE)
    \* what the list held outside the range is still there, as it was
    /\ \A p \in PagesOf(L) :
          (p[1] < o.addr \/ p[1] >= o.addr + o.length) => p \in PagesOf(L2)
    /\ \A p \in PagesOf(L2) :
          (p[1] < o.addr \/ p[1] >= o.addr + o.length) => p \in PagesOf(L)

C6_HintFallsThrough ==
    \A typ \in RangeTypes, o \in HintOptions :
        LET L == list_of(vmmgr, typ)
            ov == Overlapping(L, o.addr, o.addr + o.length)
            res == alloc(vmmgr, o, typ, 0)
        IN ("FIXED" \notin o.alloc_flags /\ ~ReservedSameTag(L, ov, o.alloc)) =>
             \/ res.ret = "OK" /\ Overlapping(L, res.addr, res.addr + o.length) = {}
             \/ res.ret = "ENOMEM"

\* C7: dealloc over a range that holds a gap between the EMAs overlapping it
\* fails with EINVAL and removes no EMA
C7_DeallocHoleRejected ==
    \A addr \in ArgAddrs, size \in ArgLens :
        LET typ == VmMgr_check(addr, size)
            L == list_of(vmmgr, typ)
            ov == Overlapping(L, addr, addr + size)
            res == dealloc(vmmgr, addr, size, 0)
        IN (typ # "EINVAL"
            /\ \E k \in ov : (k + 1) \in ov /\ ema_end(L[k]) < L[k + 1].start) =>
             /\ res.ret = "EINVAL"
             /\ res.mgr = vmmgr

\* C8: a successful a = alloc(opts) followed at once by dealloc(a, opts.length)
\* leaves the range lists as they were before the alloc
C8_AllocDeallocRoundTrip ==
    \A typ \in RangeTypes, o \in ArgOptions :
        LET res == alloc(vmmgr, o, typ, 0)
            back == dealloc(res.mgr, res.addr, o.length, 0)
        IN res.ret = "OK" => back.ret = "OK" /\ back.mgr = vmmgr

\* the address of page i of EMA e
page_addr(e, i) == e.start + (i - 1) * SE_PAGE_SIZE
InRange(a, addr, size) == addr <= a /\ a < addr + size
\* whether [addr, addr+size) lies inside COMMIT_ON_DEMAND EMAs of list L
InsideOnDemand(L, addr, size) ==
    /\ \A a \in {addr + n * SE_PAGE_SIZE : n \in 0..((size \div SE_PAGE_SIZE) - 1)} :
          \E k \in 1..Len(L) : InRange(a, L[k].start, L[k].length)
    /\ \A k \in Overlapping(L, addr, addr + size) : "COMMIT_ON_DEMAND" \in L[k].alloc_flags
\* list L with the pages of [addr, addr+size) uncommitted
Uncommitted(L, addr, size) ==
    [k \in 1..Len(L) |->
        [L[k] EXCEPT !.eaccept_map =
            [i \in 1..ema_pages(L[k]) |->
                IF InRange(page_addr(L[k], i), addr, size) THEN FALSE ELSE @[i]]]]

\* C9 (as claimed): for every range r inside COMMIT_ON_DEMAND EMAs, commit(r)
\* followed by uncommit(r) restores the eaccept_map bit of each page of r to
\* the value it had before the commit
C9_CommitUncommitRestores ==
    \A addr \in ArgAddrs, size \in ArgLens :
        LET typ == VmMgr_check(addr, size)
            L == list_of(vmmgr, typ)
            c == commit(vmmgr, addr, size, 0)
            u == uncommit(c.mgr, addr, size, 0)
            L2 == list_of(u.mgr, typ)
        IN (typ # "EINVAL" /\ InsideOnDemand(L, addr, size) /\ c.ret = "OK" /\ u.ret = "OK") =>
             /\ Len(L2) = Len(L)
             /\ \A k \in 1..Len(L) : \A i \in 1..ema_pages(L[k]) :
                   InRange(page_addr(L[k], i), addr, size) =>
                       L2[k].eaccept_map[i] = L[k].eaccept_map[i]

\* C9 (amended): for every range r inside COMMIT_ON_DEMAND EMAs, commit(r)
\* followed by uncommit(r) leaves every page of r uncommitted, which restores
\* the bit of the pages that were uncommitted before the commit, and changes
\* nothing else of the manager
C9_CommitUncommitClears ==
    \A addr \in ArgAddrs, size \in ArgLens :
        LET typ == VmMgr_check(addr, size)
            L == list_of(vmmgr, typ)
            c == commit(vmmgr, addr, size, 0)
            u == uncommit(c.mgr, addr, size, 0)
        IN (typ # "EINVAL" /\ InsideOnDemand(L, addr, size) /\ c.ret = "OK" /\ u.ret = "OK") =>
             u.mgr = with_list(vmmgr, typ, Uncommitted(L, addr, size))

\* an area whose pages are partly committed: a range inside it with a
\* committed and an uncommitted page, next to a committed page outside the
\* range, on which commit and uncommit both succeed
C9_Witness ==
    /\ last.op \in {"commit", "uncommit"}
    /\ \E addr \in AddrChoices, size \in LenChoices :
          LET typ == VmMgr_check(addr, size)
              L == list_of(vmmgr, typ)
              c == commit(vmmgr, addr, size, 0)
          IN /\ typ # "EINVAL" /\ InsideOnDemand(L, addr, size)
             /\ c.ret = "OK" /\ uncommit(c.mgr, addr, size, 0).ret = "OK"
             /\ \E k \in 1..Len(L) : \E i, j, n \in 1..ema_pages(L[k]) :
                   /\ InRange(page_addr(L[k], i), addr, size) /\ L[k].eaccept_map[i]
                   /\ InRange(page_addr(L[k], j), addr, size) /\ ~L[k].eaccept_map[j]
                   /\ ~InRange(page_addr(L[k], n), addr, size) /\ L[k].eaccept_map[n]

ArgProts == {{"R"}, {"R", "W"}, {"R", "X"}, {"X"}}
\* whether the pre-check of op fails on an EMA that [addr, addr+size) targets
CheckFails(L, addr, size, op) ==
    LET r == search_ema_range(L, addr, addr + size, TRUE, FALSE)
    IN r.found /\ check_all(L, r.idx, r.num, op) # "OK"

\* C10: when the pre-check fails on an EMA targeted by commit, uncommit or
\* modify_perms, the call returns the error and the manager is as it was: no
\* EMA split, none changed
C10_CheckFailureNoMutation ==
    \A addr \in ArgAddrs, size \in ArgLens, prot \in ArgProts :
        LET typ == VmMgr_check(addr, size)
            L == list_of(vmmgr, typ)
            Unchanged(op, res) ==
                (typ # "EINVAL" /\ CheckFails(L, addr, size, op)) =>
                    /\ res.ret = "EINVAL"
                    /\ res.mgr = vmmgr
        IN /\ Unchanged("commit", commit(vmmgr, addr, size, 0))
           /\ Unchanged("uncommit", uncommit(vmmgr, addr, size, 0))
           /\ Unchanged("modify_perms", modify_perms(vmmgr, addr, size, prot, 0))

\* the number of EMAs of list L that [addr, addr+size) targets
Targeted(L, addr, size) == search_ema_range(L, addr, addr + size, FALSE, FALSE).num

\* C11: a call of commit, uncommit, modify_perms or dealloc that targets
\* several EMAs and fails because the host or the hardware refused one of
\* them leaves every page of the list as it was: no targeted EMA removed,
\* no bitmap and no page_info changed
C11_HostFailureNoPartialSuccess ==
    \A addr \in AddrChoices, size \in LenChoices, prot \in ArgProts, fault \in HwFaults :
        LET typ == VmMgr_check(addr, size)
            L == list_of(vmmgr, typ)
            AllOrNothing(res) ==
                (typ # "EINVAL" /\ Targeted(L, addr, size) >= 2 /\ res.ret = "EFAULT") =>
                    PagesOf(list_of(res.mgr, typ)) = PagesOf(L)
        IN /\ AllOrNothing(commit(vmmgr, addr, size, fault))
           /\ AllOrNothing(uncommit(vmmgr, addr, size, fault))
           /\ AllOrNothing(modify_perms(vmmgr, addr, size, prot, fault))
           /\ AllOrNothing(dealloc(vmmgr, addr, size, fault))

\* the permissions with X and without R
ExecOnlyProts == {{"X"}, {"W", "X"}}

\* C12: modify_perms with permissions that hold X and not R fails with
\* EINVAL for every address and size, whatever the host would answer, and
\* leaves the manager as it was
C12_ExecWithoutReadRejected ==
    \A addr \in ArgAddrs, size \in ArgLens, prot \in ExecOnlyProts, fault \in HwFaults :
        LET res == modify_perms(vmmgr, addr, size, prot, fault)
        IN res.ret = "EINVAL" /\ res.mgr = vmmgr

\* modify_perms has just refused a call, and on a committed area of the
\* user list a change to R would be carried out where a change to X is refused
C12_Witness ==
    /\ last.op = "modify_perms" /\ last.ret = "EINVAL"
    /\ \E addr \in AddrChoices, size \in LenChoices :
          /\ modify_perms(vmmgr, addr, size, {"R"}, 0).ret = "OK"
          /\ modify_perms(vmmgr, addr, size, {"R"}, 0).mgr # vmmgr
          /\ modify_perms(vmmgr, addr, size, {"X"}, 0).ret = "EINVAL"

PageTypes == {"Tcs", "Trim"}

\* C13 (as claimed): modify_type fails with EINVAL when addr is not
\* page-aligned or size is not one page, and with EPERM when the type is not
\* Tcs; in each of these failures the manager is as it was
C13_ModifyTypeErrors ==
    \A addr \in ArgAddrs, size \in ArgLens, t \in PageTypes, fault \in HwFaults :
        LET res == modify_type(vmmgr, addr, size, t, fault)
        IN /\ (~is_page_aligned(addr) \/ size # SE_PAGE_SIZE) =>
                 res.ret = "EINVAL" /\ res.mgr = vmmgr
           /\ t # "Tcs" => res.ret = "EPERM" /\ res.mgr = vmmgr

\* C13 (amended): modify_type fails with EINVAL when VmMgr::check refuses the
\* range (a misaligned address among its reasons) or when the type is Tcs and
\* size is not one page, and with EPERM when the type is not Tcs and the
\* check accepts the range; in each of these failures the manager is as it
\* was, whatever the host would answer
C13_ModifyTypeErrorsInOrder ==
    \A addr \in ArgAddrs, size \in ArgLens, t \in PageTypes, fault \in HwFaults :
        LET res == modify_type(vmmgr, addr, size, t, fault)
            typ == VmMgr_check(addr, size)
        IN /\ ~is_page_aligned(addr) => typ = "EINVAL"
           /\ (typ = "EINVAL" \/ (t = "Tcs" /\ size # SE_PAGE_SIZE)) =>
                 res.ret = "EINVAL" /\ res.mgr = vmmgr
           /\ (typ # "EINVAL" /\ t # "Tcs") => res.ret = "EPERM" /\ res.mgr = vmmgr

\* modify_type has just refused a type other than Tcs, and the user list
\* holds an area of several pages whose first page can become a TCS page
\* while the area as a whole is refused
C13_Witness ==
    /\ last.op = "modify_type" /\ last.ret = "EPERM"
    /\ \E k \in 1..Len(vmmgr.user) :
          /\ vmmgr.user[k].length > SE_PAGE_SIZE
          /\ modify_type(vmmgr, vmmgr.user[k].start, SE_PAGE_SIZE, "Tcs", 0).ret = "OK"
          /\ modify_type(vmmgr, vmmgr.user[k].start, vmmgr.user[k].length, "Tcs", 0).ret = "EINVAL"

\* the options of every call of init_static_region
StaticOptions ==
    {EmaOptions(a, l, c[1], c[2]) : a \in ArgAddrs \cup {NoAddr}, l \in ArgLens,
                                    c \in StaticChoices}

\* C14: init_static_region fails with EINVAL when the address is unset or
\* the range overlaps an EMA of the RTS list; every failure leaves the
\* manager as it was; a success inserts exactly the one EMA [addr,
\* addr+length), between the EMAs below it and the EMAs above it
C14_StaticRegionInserted ==
    \A o \in StaticOptions :
        LET L == vmmgr.rts
            res == init_static_region(vmmgr, o)
        IN /\ (o.addr = NoAddr \/ Overlapping(L, o.addr, o.addr + o.length) # {}) =>
                 res.ret = "EINVAL"
           /\ res.ret # "OK" => res.mgr = vmmgr
           /\ res.ret = "OK" =>
                 /\ res.mgr.user = vmmgr.user
                 /\ \E k \in 1..(Len(L) + 1) :
                       /\ Len(res.mgr.rts) = Len(L) + 1
                       /\ res.mgr.rts[k].start = o.addr
                       /\ res.mgr.rts[k].length = o.length
                       /\ \A j \in 1..Len(L) :
                             /\ j < k => res.mgr.rts[j] = L[j] /\ ema_end(L[j]) <= o.addr
                             /\ j >= k => res.mgr.rts[j + 1] = L[j] /\ L[j].start >= o.addr + o.length

\* the loader has registered two static regions, the second below the
\* first, and a second identical call for either is refused
C14_Witness ==
    /\ last.op = "init_static_region" /\ last.ret = "OK"
    /\ Len(vmmgr.rts) = 2
    /\ \A k \in 1..2 :
          /\ "SYSTEM" \in vmmgr.rts[k].alloc_flags
          /\ init_static_region(vmmgr, EmaOptions(vmmgr.rts[k].start, vmmgr.rts[k].length,
                                                  vmmgr.rts[k].alloc_flags, vmmgr.rts[k].alloc)).ret
                = "EINVAL"

\* the permissions modify_perms accepts
ReadProts == {{"R"}, {"R", "W"}, {"R", "X"}}
\* whether EMA e is a regular area with every page committed
Committed(e) ==
    /\ "RESERVED" \notin e.alloc_flags
    /\ e.typ = "Reg"
    /\ \A i \in 1..ema_pages(e) : e.eaccept_map[i]
\* the part [from, to) of EMA e with permissions prot: the bitmap is the
\* slice of the bitmap of e for these pages
Piece(e, from, to, prot) ==
    [e EXCEPT !.start = from, !.length = to - from, !.prot = prot,
              !.eaccept_map = [i \in 1..((to - from) \div SE_PAGE_SIZE) |->
                                  e.eaccept_map[i + ((from - e.start) \div SE_PAGE_SIZE)]]]
\* EMA e cut at s and at e2, the middle part with permissions prot
Pieces(e, s, e2, prot) ==
    (IF e.start < s THEN <<Piece(e, e.start, s, e.prot)>> ELSE <<>>)
    \o <<Piece(e, s, e2, prot)>>
    \o (IF e2 < ema_end(e) THEN <<Piece(e, e2, ema_end(e), e.prot)>> ELSE <<>>)

\* C15: modify_perms on a strict sub-range [s, e) of a single committed EMA
\* [a, b) leaves in its place [a, s) and [e, b) with the old permissions
\* and [s, e) with the new ones, each with its slice of the bitmap, and
\* changes nothing else
C15_ModifyPermsSplits ==
    \A addr \in AddrChoices, size \in LenChoices, prot \in ReadProts :
        LET typ == VmMgr_check(addr, size)
            L == list_of(vmmgr, typ)
            res == modify_perms(vmmgr, addr, size, prot, 0)
        IN typ # "EINVAL" =>
           \A k \in 1..Len(L) :
              (/\ Overlapping(L, addr, addr + size) = {k}
               /\ Committed(L[k])
               /\ L[k].start <= addr /\ addr + size <= ema_end(L[k])
               /\ size < L[k].length) =>
                 /\ res.ret = "OK"
                 /\ res.mgr = with_list(vmmgr, typ,
                                        SubSeq(L, 1, k - 1)
                                        \o Pieces(L[k], addr, addr + size, prot)
                                        \o SubSeq(L, k + 1, Len(L)))

\* list L with the pages of [addr, addr+size) committed
CommittedIn(L, addr, size) ==
    [k \in 1..Len(L) |->
        [L[k] EXCEPT !.eaccept_map =
            [i \in 1..ema_pages(L[k]) |->
                IF InRange(page_addr(L[k], i), addr, size) THEN TRUE ELSE @[i]]]]

\* C16: a successful commit(addr, size) sets the bit of the pages of [addr,
\* addr+size) and changes nothing else: no other bit, in the same EMA or in
\* another, and no EMA bounds; when the pages are committed already the call
\* changes nothing, whatever the host would answer
C16_CommitExactlyRange ==
    \A addr \in ArgAddrs, size \in ArgLens, fault \in HwFaults :
        LET typ == VmMgr_check(addr, size)
            L == list_of(vmmgr, typ)
            res == commit(vmmgr, addr, size, fault)
        IN /\ res.ret = "OK" => res.mgr = with_list(vmmgr, typ, CommittedIn(L, addr, size))
           /\ (commit(vmmgr, addr, size, 0).ret = "OK" /\ CommittedIn(L, addr, size) = L) =>
                 res.ret = "OK" /\ res.mgr = vmmgr

\* commit has committed a part of an area of several pages, whose other
\* pages are uncommitted, next to another area
C16_Witness ==
    /\ last.op = "commit" /\ last.ret = "OK"
    /\ Len(vmmgr.user) = 2
    /\ \E k \in 1..2 : \E i, j \in 1..ema_pages(vmmgr.user[k]) :
          vmmgr.user[k].eaccept_map[i] /\ ~vmmgr.user[k].eaccept_map[j]

\* the block of a live payload: [p - HEADER_SIZE, p - HEADER_SIZE + size)
block_start(p) == p.payload - HEADER_SIZE
block_end(p) == p.payload - HEADER_SIZE + block_size(p.size)

\* C20: the blocks of the live payloads are pairwise disjoint, and the block
\* of a payload of a request of N bytes has max(MIN_BLOCK_SIZE, round_up(N +
\* HEADER_SIZE, 8)) bytes or more and lies in the used part of a chunk: a
\* request of 0 bytes has a block of MIN_BLOCK_SIZE bytes at least and a
\* payload that no other live payload has
C20_LiveBlocksDisjoint ==
    /\ \A i, j \in 1..Len(payloads) :
          i # j => (block_end(payloads[i]) <= block_start(payloads[j])
                    \/ block_end(payloads[j]) <= block_start(payloads[i]))
    /\ \A i \in 1..Len(payloads) :
          /\ block_size(payloads[i].size) >= block_size_of(payloads[i].req)
          /\ block_size(payloads[i].size) >= MIN_BLOCK_SIZE
          /\ \E c \in 1..Len(reserve.chunks) :
                /\ block_start(payloads[i]) >= reserve.chunks[c].base
                /\ block_end(payloads[i]) <= reserve.chunks[c].base + reserve.chunks[c].used

\* emalloc has just served a request from a free list, after an efree, and
\* the live payloads include one of a request of 0 bytes and two others
C20_Witness ==
    /\ last.op = "emalloc" /\ last.ret = "OK" /\ last.via \in {"exact", "large"}
    /\ Len(payloads) = 3
    /\ \E i \in 1..Len(payloads) : payloads[i].req = 0
    /\ Len(reserve.chunks) = 2

\* C19: however the threads call init_emm, Reserve::new runs once at most
\* and only with the VM manager and the static heap initialized, and when a
\* call of init_emm has returned it has run exactly once
C19_ReserveHeapOnce ==
    /\ once.news <= 1
    /\ once.RSRV_ALLOCATOR # "Incomplete" =>
          once.VMMGR = "Complete" /\ once.STATIC = "Complete"
    /\ \A t \in Threads :
          /\ thread[t].pc # "panic"
             \/ (once.VMMGR = "Complete" /\ once.STATIC = "Complete" /\ last.ret # "OK")
          /\ (thread[t].pc = "idle" /\ thread[t].calls > 0) =>
                once.news = 1 /\ once.RSRV_ALLOCATOR = "Complete"

\* every thread has called init_emm more than once and has returned, and
\* the VM manager holds the reserved region and the chunk of the one
\* construction of the reserve heap
C19_Witness ==
    /\ \A t \in Threads : thread[t].pc = "idle" /\ thread[t].calls = MaxInitCalls
    /\ once.news = 1
    /\ \E k \in 1..Len(vmmgr.user) :
          /\ "COMMIT_ON_DEMAND" \in vmmgr.user[k].alloc_flags
          /\ vmmgr.user[k].eaccept_map[1]

\* C17: the locks are taken in the order VMMGR, RSRV_ALLOCATOR, STATIC: a
\* thread that asks for VMMGR does not hold RSRV_ALLOCATOR, and a thread
\* that asks for RSRV_ALLOCATOR does not hold STATIC
C17_LockOrder ==
    \A t \in LockThreads :
        /\ requests(thread[t]) = "VMMGR" => locks["RSRV_ALLOCATOR"].owner # t
        /\ requests(thread[t]) = "RSRV_ALLOCATOR" => locks["STATIC"].owner # t

\* C18: a thread inside a method of VmMgr holds the lock of VMMGR; at the
\* command phase of a call the range lists are those its check phase left;
\* and when no call is inside, the range lists and bitmaps are those of the
\* calls run one after another
C18_CallsSerialized ==
    /\ \A t \in LockThreads :
          /\ thread[t].pc \in {"locked", "commands"} => locks["VMMGR"].owner = t
          /\ thread[t].pc = "commands" => vmmgr = thread[t].seen
    /\ (\A t \in LockThreads : thread[t].pc \in {"idle", "enter"}) => vmmgr = serial

\* a thread is between the check phase and the command phase of a call
\* that targets a committed page, and the other thread has called an entry
\* point and is waiting
C18_Witness ==
    \E t, u \in LockThreads :
        /\ thread[t].pc = "commands"
        /\ thread[t].call.op = "uncommit"
        /\ thread[t].phase.num > 0
        /\ thread[u].pc = "enter"
        /\ last.op \in {"commit", "alloc"}
        /\ serial # VmMgr_new

\* the blocks of the free lists
FreeBlocks(rsv) ==
    {rsv.large_blocks[k] : k \in 1..Len(rsv.large_blocks)}
        \cup UNION {{rsv.exact_blocks[i][k] : k \in 1..Len(rsv.exact_blocks[i])} :
                       i \in 1..NUM_EXACT_LIST}

\* the chunks whose used part holds [from, to)
ChunksHolding(rsv, from, to) ==
    {c \in 1..Len(rsv.chunks) :
        from >= rsv.chunks[c].base /\ to <= rsv.chunks[c].base + rsv.chunks[c].used}

\* C21: the block of every live payload lies in the used part of exactly
\* one chunk, and so does every block of a free list; efree of a live
\* payload finds its chunk
C21_BlocksInOneChunk ==
    /\ \A i \in 1..Len(payloads) :
          /\ Cardinality(ChunksHolding(reserve, block_start(payloads[i]),
                                       block_end(payloads[i]))) = 1
          /\ efree(reserve, payloads[i].payload, payloads[i].size).ret = "OK"
    /\ \A b \in FreeBlocks(reserve) :
          Cardinality(ChunksHolding(reserve, b.addr, b.addr + b.size)) = 1

\* efree has just taken the top block of a chunk, and below it that chunk
\* holds a free block and the other chunk a live one
C21_Witness ==
    /\ last.op = "efree"
    /\ Len(reserve.chunks) = 2
    /\ \E b \in FreeBlocks(reserve) :
          /\ b.addr + b.size = reserve.chunks[1].base + reserve.chunks[1].used
          /\ \E i \in 1..Len(payloads) :
                ChunksHolding(reserve, block_start(payloads[i]), block_end(payloads[i])) = {2}

\* emalloc(n), efree of its payload and emalloc(n) again: the second
\* emalloc succeeds without add_chunks, its payload has n bytes or more,
\* and the chunks have no more in use than after the first emalloc
RoundTripNoGrowth(rsv, n, first) ==
    first.ret = "OK" =>
        LET again == emalloc(efree(first.rsv, first.payload, first.size).rsv, n, "ENOMEM")
        IN  /\ again.ret = "OK"
            /\ block_size(again.size) - HEADER_SIZE >= n
            /\ Len(again.rsv.chunks) = Len(first.rsv.chunks)
            /\ used_sum(again.rsv) <= used_sum(first.rsv)

\* C22: emalloc(n), efree of the result and emalloc(n) again gives n bytes
\* or more without growing the heap; and a later run of a workload in which
\* every payload is freed has no failing emalloc, adds no chunk and has no
\* more bytes of the chunks in use than the first run had at its most
C22_BalancedWorkloadNoGrowth ==
    /\ \A n \in WorkSizes : RoundTripNoGrowth(reserve, n, emalloc(reserve, n, "OK"))
    /\ workload.run > 1 =>
          /\ last.ret = "OK"
          /\ Len(reserve.chunks) = workload.chunks
          /\ used_sum(reserve) <= workload.high

\* the places of the free lists, <<list, position>> with list 0 the large
\* list, that hold a block at addr
PlacesOf(rsv, addr) ==
    {<<0, k>> : k \in {j \in 1..Len(rsv.large_blocks) : rsv.large_blocks[j].addr = addr}}
        \cup UNION {{<<i, k>> : k \in {j \in 1..Len(rsv.exact_blocks[i]) :
                                          rsv.exact_blocks[i][j].addr = addr}} :
                       i \in 1..NUM_EXACT_LIST}

\* C23: every free block is on one free list and there once; a block of
\* the i-th exact list (counted from 0) has MIN_BLOCK_SIZE + 8 * i bytes, a
\* block of the large list more than MAX_EXACT_SIZE; the size word of a
\* block on a free list has the allocated bit clear and that of a live
\* block has it set
C23_FreeListsBySize ==
    /\ \A b \in FreeBlocks(reserve) :
          /\ Cardinality(PlacesOf(reserve, b.addr)) = 1
          /\ b.size % (2 * ALLOC_MASK) = 0
    /\ \A i \in 1..NUM_EXACT_LIST : \A k \in 1..Len(reserve.exact_blocks[i]) :
          reserve.exact_blocks[i][k].size = MIN_BLOCK_SIZE + EXACT_MATCH_INCREMENT * (i - 1)
    /\ \A k \in 1..Len(reserve.large_blocks) : reserve.large_blocks[k].size > MAX_EXACT_SIZE
    /\ \A i \in 1..Len(payloads) :
          /\ payloads[i].size % (2 * ALLOC_MASK) = ALLOC_MASK
          /\ PlacesOf(reserve, block_start(payloads[i])) = {}

\* efree has just returned; three blocks are on the free lists, the last
\* exact list and the large list among them, and a payload is live
C23_Witness ==
    /\ last.op = "efree"
    /\ reserve.exact_blocks[NUM_EXACT_LIST] # <<>>
    /\ reserve.large_blocks # <<>>
    /\ payloads # <<>>
    /\ Cardinality(FreeBlocks(reserve)) = 3

\* the places <<typ, k>> of the range lists that hold the EMA of the chunk
\* [base, base + increment), with the Static allocator tag
ChunkEmas(mgr, base, increment) ==
    {p \in RangeTypes \X (1..ema_count(mgr)) :
        /\ p[2] <= Len(list_of(mgr, p[1]))
        /\ list_of(mgr, p[1])[p[2]].start = base
        /\ list_of(mgr, p[1])[p[2]].length = increment
        /\ list_of(mgr, p[1])[p[2]].alloc = "Static"
        /\ "RESERVED" \notin list_of(mgr, p[1])[p[2]].alloc_flags}

\* C24: the chunk of a successful add_chunks lies in an EMA of the RTS
\* range list that carries the Static allocator tag, within the RTS range
C24_ChunkInRtsRange ==
    (last.op = "add_chunks" /\ last.ret = "OK") =>
        /\ \E p \in ChunkEmas(vmmgr, last.base, last.increment) : p[1] = "Rts"
        /\ is_within_rts_range(last.base, last.increment)

\* L[k] is a guard: a RESERVED EMA [start, start + GUARD_SIZE) with the
\* Static allocator tag
IsGuard(L, k, start) ==
    /\ k \in 1..Len(L)
    /\ L[k].start = start
    /\ L[k].length = GuardPages * SE_PAGE_SIZE
    /\ "RESERVED" \in L[k].alloc_flags
    /\ L[k].alloc = "Static"

\* C29: after a successful add_chunks the EMA of the chunk has a guard
\* right before it and a guard right after it in its range list, and of
\* its pages exactly those of the first rsize bytes are committed
C29_ChunkBetweenGuards ==
    (last.op = "add_chunks" /\ last.ret = "OK") =>
        /\ ChunkEmas(vmmgr, last.base, last.increment) # {}
        /\ \A p \in ChunkEmas(vmmgr, last.base, last.increment) :
              /\ IsGuard(list_of(vmmgr, p[1]), p[2] - 1, last.base - GuardPages * SE_PAGE_SIZE)
              /\ IsGuard(list_of(vmmgr, p[1]), p[2] + 1, last.base + last.increment)
              /\ \A i \in 1..(last.increment \div SE_PAGE_SIZE) :
                    list_of(vmmgr, p[1])[p[2]].eaccept_map[i]
                        <=> (i <= last.rsize \div SE_PAGE_SIZE)

\* a chunk longer than what is committed of it was added beside the EMA of
\* another user of the region
C29_Witness ==
    /\ last.op = "add_chunks"
    /\ last.ret = "OK"
    /\ last.rsize < last.increment
    /\ Len(vmmgr.user) > 3

\* the rsize of the add_chunks of the step that led to the state
step_rsize ==
    IF last.op = "Reserve_new" THEN INIT_MEM_SIZE
    ELSE rsize_of(payloads[Len(payloads)].req)

\* C25: a step that adds a chunk replaces incr_size by
\* min(2 * incr_size, MAX_EMALLOC_SIZE) and the region of the chunk has
\* max(incr_size, rsize) bytes, incr_size being the value before the step;
\* every other step, a failed add_chunks included, leaves incr_size
\* unchanged; incr_size never decreases and stays within
\* [INIT_MEM_SIZE, MAX_EMALLOC_SIZE]
C25_IncrSizeDoubles ==
    [][/\ Len(reserve'.chunks) = Len(reserve.chunks) + 1 =>
            /\ reserve'.incr_size = min(2 * reserve.incr_size, MAX_EMALLOC_SIZE)
            /\ reserve'.chunks[1].size + size_of_Chunk = max(reserve.incr_size, step_rsize')
       /\ Len(reserve'.chunks) # Len(reserve.chunks) + 1 =>
            /\ Len(reserve'.chunks) = Len(reserve.chunks)
            /\ reserve'.incr_size = reserve.incr_size
       /\ reserve'.incr_size >= reserve.incr_size
       /\ reserve.incr_size >= INIT_MEM_SIZE
       /\ reserve'.incr_size <= MAX_EMALLOC_SIZE]_vars

\* the constructor doubled incr_size, the add_chunks of an emalloc whose
\* rsize exceeds incr_size raised it to MAX_EMALLOC_SIZE, and a later
\* emalloc failed in add_chunks
C25_Witness ==
    /\ Len(reserve.chunks) = 2
    /\ reserve.chunks[2].size + size_of_Chunk = INIT_MEM_SIZE
    /\ reserve.chunks[1].size + size_of_Chunk > 2 * INIT_MEM_SIZE
    /\ reserve.incr_size = MAX_EMALLOC_SIZE
    /\ last.op = "emalloc"
    /\ last.ret # "OK"

\* the cursors of the large blocks of L that take bsize bytes
Fits(L, bsize) == {i \in 1..Len(L) : L[i].size >= bsize}

\* i is the best fit of L for bsize: no fitting block is smaller, and none
\* of its size comes before it
BestFit(L, bsize, i) ==
    /\ i \in Fits(L, bsize)
    /\ \A j \in Fits(L, bsize) : L[j].size >= L[i].size
    /\ \A j \in 1..(i - 1) : L[j].size # L[i].size

\* C27: an emalloc whose footprint exceeds MAX_EXACT_SIZE takes the best
\* fit of the large list (the first of the smallest blocks with size >=
\* bsize), removes that block only, keeps the order of the others and
\* leaves the chunks alone; it takes a block of a chunk only when no large
\* block fits
C27_LargeBestFit ==
    [][(/\ last'.op = "emalloc"
        /\ last'.ret = "OK"
        /\ block_size_of(payloads'[Len(payloads')].req) > MAX_EXACT_SIZE) =>
            IF Fits(reserve.large_blocks, block_size_of(payloads'[Len(payloads')].req)) = {}
            THEN /\ last'.via = "chunk"
                 /\ reserve'.large_blocks = reserve.large_blocks
            ELSE /\ last'.via = "large"
                 /\ reserve'.chunks = reserve.chunks
                 /\ \E i \in 1..Len(reserve.large_blocks) :
                       /\ BestFit(reserve.large_blocks,
                                  block_size_of(payloads'[Len(payloads')].req), i)
                       /\ payloads'[Len(payloads')].payload
                             = reserve.large_blocks[i].addr + HEADER_SIZE
                       /\ reserve'.large_blocks = remove_at(reserve.large_blocks, i)]_vars

\* a request took a large block of its size while a larger block, which
\* fits it too, stayed on the large list
C27_Witness ==
    /\ last.op = "emalloc"
    /\ last.via = "large"
    /\ \E i \in 1..Len(reserve.large_blocks) :
          reserve.large_blocks[i].size > block_size(payloads[Len(payloads)].size)

\* the block of the i-th live payload ends at base + used of chunk c
AtTop(rsv, i, c) ==
    payloads[i].payload - HEADER_SIZE + block_size(payloads[i].size)
        = rsv.chunks[c].base + rsv.chunks[c].used

\* the heap after the block of the i-th live payload was pushed on its list
Listed(rsv, i) ==
    IF block_size(payloads[i].size) <= MAX_EXACT_SIZE
    THEN [rsv EXCEPT !.exact_blocks[get_list_idx(block_size(payloads[i].size))] =
                        <<BlockFree(payloads[i].payload - HEADER_SIZE,
                                    block_size(payloads[i].size))>> \o @]
    ELSE [rsv EXCEPT !.large_blocks =
                        <<BlockFree(payloads[i].payload - HEADER_SIZE,
                                    block_size(payloads[i].size))>> \o @]

\* C28: efree of a block that ends at base + used of a chunk lowers the
\* used of that chunk by the size of the block and changes nothing else
\* of the heap; efree of any other block leaves the chunks as they are and
\* pushes the block on the exact list of its size, or on the large list
\* when its size exceeds MAX_EXACT_SIZE, and changes nothing else
C28_EfreeTopOrList ==
    [][last'.op = "efree" =>
          \E i \in 1..Len(payloads) :
              /\ payloads' = remove_at(payloads, i)
              /\ IF \E c \in 1..Len(reserve.chunks) : AtTop(reserve, i, c)
                 THEN \E c \in 1..Len(reserve.chunks) :
                         /\ AtTop(reserve, i, c)
                         /\ reserve' = [reserve EXCEPT !.chunks[c].used =
                                                          @ - block_size(payloads[i].size)]
                 ELSE reserve' = Listed(reserve, i)]_vars

\* an efree lowered used of a chunk to the end of a block that lies on a
\* free list: the two were not merged
C28_Witness ==
    /\ last.op = "efree"
    /\ \E c \in 1..Len(reserve.chunks) : \E b \in FreeBlocks(reserve) :
          /\ reserve.chunks[c].used > 0
          /\ b.addr + b.size = reserve.chunks[c].base + reserve.chunks[c].used

\* some free list or chunk of rsv serves a block of bsize bytes
Serves(rsv, bsize) ==
    \/ get_free_block(rsv, bsize).found
    \/ \E c \in 1..Len(rsv.chunks) : rsv.chunks[c].size - rsv.chunks[c].used >= bsize

\* the emalloc of the step adds at most one chunk; when it adds one, no
\* list and no chunk served the request, the region of the chunk has
\* max(incr_size, rsize) bytes and the block lies at the base of the chunk;
\* when it fails, the heap is as it was
EmallocGrowsOnce ==
    /\ Len(reserve'.chunks) \in {Len(reserve.chunks), Len(reserve.chunks) + 1}
    /\ Len(reserve'.chunks) = Len(reserve.chunks) + 1 =>
          /\ last'.ret = "OK"
          /\ last'.via = "chunk"
          /\ ~Serves(reserve, block_size_of(payloads'[Len(payloads')].req))
          /\ reserve'.chunks[1].size + size_of_Chunk
                = max(reserve.incr_size, rsize_of(payloads'[Len(payloads')].req))
          /\ payloads'[Len(payloads')].payload = reserve'.chunks[1].base + HEADER_SIZE
          /\ reserve'.chunks[1].used = block_size_of(payloads'[Len(payloads')].req)
    /\ last'.ret # "OK" =>
          /\ reserve' = reserve
          /\ payloads' = payloads

\* C30: an emalloc that no free block and no chunk serves adds one chunk
\* with add_chunks(round_to(bsize + size_of_Chunk, INIT_MEM_SIZE)) and takes
\* its block from it; emalloc fails only when add_chunks fails, and then
\* with ENOMEM
C30_GrowsOrOutOfMemory ==
    [][last'.op = "emalloc" =>
          /\ EmallocGrowsOnce
          /\ last'.ret # "OK" => last'.ret = "ENOMEM"]_vars

\* the addresses of the pages of e whose bit is set in eaccept_map
BitPages(e) == {e.start + (i - 1) * SE_PAGE_SIZE : i \in {j \in 1..ema_pages(e) : e.eaccept_map[j]}}

\* pages that are committed in hardware: the bit of a page is set once its
\* EACCEPT succeeded (Ema::commit, alloc with COMMIT_NOW) or for a page of
\* the image (init_static_region), and it is cleared when the page is
\* trimmed, so the pages whose bit is set in some EMA are committed
CommittedInHardware(mgr) ==
    UNION {UNION {BitPages(list_of(mgr, typ)[k]) : k \in 1..Len(list_of(mgr, typ))} :
              typ \in RangeTypes}

\* the addresses of the pages of e
EmaPages(e) == {e.start + (i - 1) * SE_PAGE_SIZE : i \in 1..ema_pages(e)}

\* C26: for every EMA of either list, the number of bits set in its
\* eaccept_map is the number of its pages that are committed in hardware,
\* and the eaccept_map of a RESERVED EMA has no bit set
C26_BitmapMatchesHardware ==
    \A typ \in RangeTypes : \A k \in 1..Len(list_of(vmmgr, typ)) :
        /\ Cardinality(BitPages(list_of(vmmgr, typ)[k]))
              = Cardinality(EmaPages(list_of(vmmgr, typ)[k]) \cap CommittedInHardware(vmmgr))
        /\ "RESERVED" \in list_of(vmmgr, typ)[k].alloc_flags =>
              BitPages(list_of(vmmgr, typ)[k]) = {}

\* thread t asks for a lock that is not handed to it
Waits(t) ==
    /\ requests(thread[t]) # "none"
    /\ ~can_lock(locks, requests(thread[t]), t)

\* C34: no thread waits for a lock it holds itself, and no two threads
\* wait each for a lock the other holds
C34_NoDeadlock ==
    \A t \in LockThreads : \A u \in LockThreads :
        ~(/\ Waits(t)
          /\ Waits(u)
          /\ locks[requests(thread[t])].owner = u
          /\ locks[requests(thread[u])].owner = t)

\* C37: an add_chunks that fails leaves the range lists of the VM manager
\* and the reserve heap as they were before the call
C37_FailedAddChunksNoTrace ==
    [][(last'.op = "add_chunks" /\ last'.ret # "OK") =>
          /\ vmmgr' = vmmgr
          /\ reserve' = reserve]_vars

\* the EMAs of either list of mgr
EmasOf(mgr) ==
    {mgr.rts[k] : k \in 1..Len(mgr.rts)} \cup {mgr.user[k] : k \in 1..Len(mgr.user)}

\* C31: every EMA node that add_chunks creates or changes, the pieces of
\* the EMAs it splits included, carries the Static allocator tag: its node
\* comes from the static heap and RsrvAlloc::allocate is not called
C31_AddChunksNodesStatic ==
    [][last'.op = "add_chunks" =>
          \A e \in EmasOf(vmmgr') \ EmasOf(vmmgr) : e.alloc = "Static"]_vars

\* add_chunks split the RESERVED region around the chunk while the EMA of
\* another caller, whose node comes from the reserve heap, is in the list
C31_Witness ==
    /\ last.op = "add_chunks"
    /\ last.ret = "OK"
    /\ \E e \in EmasOf(vmmgr) : e.alloc = "Reserve"
    /\ \E e \in EmasOf(vmmgr) : e.alloc = "Static" /\ e.start = last.base + last.increment


\* whether [addr, addr+len) overlaps no EMA of L and idx is the position
\* right after it: every EMA before idx starts below addr+len, and the EMA
\* at idx, if any, starts at or above addr+len
FreeAt(L, addr, len, idx) ==
    /\ Overlapping(L, addr, addr + len) = {}
    /\ \A k \in 1..Len(L) : k < idx => L[k].start < addr + len
    /\ idx <= Len(L) => L[idx].start >= addr + len

\* C32: whenever find_free_region(len, align, typ) returns (addr, cursor) on
\* a non-empty list, [addr, addr+len) overlaps no EMA of the list and cursor
\* is the EMA right after the range, whichever candidate it returns
C32_FreeRegionIsFree ==
    \A typ \in RangeTypes, len \in LenChoices :
        LET L == list_of(vmmgr, typ)
            free == find_free_region(L, len, SE_PAGE_SIZE, typ)
        IN (Len(L) > 0 /\ free.found) => FreeAt(L, free.addr, len, free.idx)

\* the same for the candidates other than the one before the first EMA
C32_GapAndPastLastFree ==
    \A typ \in RangeTypes, len \in LenChoices :
        LET L == list_of(vmmgr, typ)
            free == find_free_region(L, len, SE_PAGE_SIZE, typ)
        IN (Len(L) > 0 /\ Sorted(L) /\ free.found /\ free.via # "before_first") =>
             FreeAt(L, free.addr, len, free.idx)

\* whether every page of [addr, addr+size) lies in an EMA of L
Covered(L, addr, size) ==
    \A a \in addr..(addr + size - 1) : \E k \in 1..Len(L) : InRange(a, L[k].start, L[k].length)

\* C35: commit, uncommit, modify_perms and modify_type succeed on
\* [addr, addr+size) only if every page of the range is covered by an EMA: a
\* range whose first overlapping EMA starts above addr, or whose last one
\* ends below addr+size, is refused with EINVAL and nothing is applied
C35_PartlyCoveredRejected ==
    \A addr \in AddrChoices, size \in LenChoices :
        LET typ == VmMgr_check(addr, size)
        IN (typ # "EINVAL" /\ ~Covered(list_of(vmmgr, typ), addr, size)) =>
             /\ commit(vmmgr, addr, size, 0).ret = "EINVAL"
             /\ uncommit(vmmgr, addr, size, 0).ret = "EINVAL"
             /\ \A prot \in ProtChoices : modify_perms(vmmgr, addr, size, prot, 0).ret = "EINVAL"
             /\ modify_type(vmmgr, addr, size, "Tcs", 0).ret = "EINVAL"
             /\ commit(vmmgr, addr, size, 0).mgr = vmmgr

\* the pages of list L outside [addr, addr+size), with what L records of each
PagesOutside(L, addr, size) == {p \in PagesOf(L) : ~InRange(p[1], addr, size)}

\* C33: a successful dealloc(addr, size) removes the coverage of exactly
\* [addr, addr+size): every page outside the range stays in its list with
\* its alloc flags, allocator, page type, permissions and commit bit, no page
\* inside the range stays, the EMAs that do not overlap the range are left
\* as they were, and the other list is not touched
C33_DeallocExactlyRange ==
    \A addr \in AddrChoices, size \in LenChoices :
        LET typ == VmMgr_check(addr, size)
            L == list_of(vmmgr, typ)
            res == dealloc(vmmgr, addr, size, 0)
        IN res.ret = "OK" =>
             /\ PagesOf(list_of(res.mgr, typ)) = PagesOutside(L, addr, size)
             /\ \A k \in 1..Len(L) \ Overlapping(L, addr, addr + size) :
                   \E j \in 1..Len(list_of(res.mgr, typ)) : list_of(res.mgr, typ)[j] = L[k]
             /\ \A other \in RangeTypes \ {typ} : list_of(res.mgr, other) = list_of(vmmgr, other)

\* the same on the lists that are sorted and disjoint
C33_DeallocExactlyRangeSorted ==
    \A addr \in AddrChoices, size \in LenChoices :
        LET typ == VmMgr_check(addr, size)
            L == list_of(vmmgr, typ)
            res == dealloc(vmmgr, addr, size, 0)
        IN (res.ret = "OK" /\ Sorted(L)) =>
             /\ PagesOf(list_of(res.mgr, typ)) = PagesOutside(L, addr, size)
             /\ \A k \in 1..Len(L) \ Overlapping(L, addr, addr + size) :
                   \E j \in 1..Len(list_of(res.mgr, typ)) : list_of(res.mgr, typ)[j] = L[k]
             /\ \A other \in RangeTypes \ {typ} : list_of(res.mgr, other) = list_of(vmmgr, other)

\* the EMA nodes a call takes off a range list and those of them it hands
\* back to the heap of their allocator tag
Nodes(removed, freed) == [removed |-> removed, freed |-> freed]

\* the loop of dealloc: cursor.remove(), then ema.dealloc()?, then the node
\* is dropped as a Box in its allocator; an error of ema.dealloc() returns
\* before the Box is made.  r is what search_ema_range returned
dealloc_nodes(r, fault) ==
    IF ~r.found THEN Nodes(0, 0)
    ELSE IF fault \in 1..r.num /\ dealloc_needs_host(r.list[r.idx + fault - 1])
    THEN Nodes(fault, fault - 1)
    ELSE Nodes(r.num, r.num)

\* the second loop of clear_reserved_emas: cursor.remove() and nothing else.
\* r is what search_ema_range returned
clear_nodes(L, tag, r) ==
    IF clear_found(L, tag, r).found THEN Nodes(r.num, 0) ELSE Nodes(0, 0)

\* alloc reaches clear_reserved_emas when it is given an address whose range
\* meets an EMA of the list
alloc_nodes(L, o) ==
    IF EmaOptions_check(o) # "OK" \/ o.addr = NoAddr THEN Nodes(0, 0)
    ELSE IF ~search_ema_range(L, o.addr, o.addr + o.length, FALSE, FALSE).found
    THEN Nodes(0, 0)
    ELSE clear_nodes(L, o.alloc, search_ema_range(L, o.addr, o.addr + o.length, TRUE, TRUE))

\* C36: EMA nodes are conserved: every node a call takes off a range list is
\* returned to the heap of its allocator tag, both the nodes dealloc removes
\* and the RESERVED nodes a fixed-address alloc replaces
C36_NodesConserved ==
    /\ \A addr \in AddrChoices, size \in LenChoices, fault \in HwFaults :
          LET typ == VmMgr_check(addr, size)
              r == search_ema_range(list_of(vmmgr, IF typ = "EINVAL" THEN "User" ELSE typ),
                                    addr, addr + size, FALSE, TRUE)
          IN typ # "EINVAL" =>
               dealloc_nodes(r, fault).freed = dealloc_nodes(r, fault).removed
    /\ \A typ \in RangeTypes, addr \in AddrChoices, length \in LenChoices, c \in AllocChoices :
          LET nodes == alloc_nodes(list_of(vmmgr, typ), EmaOptions(addr, length, c[1], c[2]))
          IN nodes.freed = nodes.removed

\* the nodes of dealloc alone, in the builds whose out-calls cannot fail
C36_DeallocNodesConserved ==
    \A addr \in AddrChoices, size \in LenChoices :
        LET typ == VmMgr_check(addr, size)
            r == search_ema_range(list_of(vmmgr, IF typ = "EINVAL" THEN "User" ELSE typ),
                                  addr, addr + size, FALSE, TRUE)
        IN (typ # "EINVAL" /\ r.found) =>
             /\ dealloc_nodes(r, 0) = Nodes(r.num, r.num)
             /\ Len(dealloc(vmmgr, addr, size, 0).mgr.rts) + Len(dealloc(vmmgr, addr, size, 0).mgr.user)
                  = Len(r.list) + Len(list_of(vmmgr, IF typ = "Rts" THEN "User" ELSE "Rts")) - r.num
=============================================================================
